---------------------------- MODULE Spec2Model ----------------------------
(***************************************************************************)
(* A model of the Tangle ledger: the DAG of transactions of one peer       *)
(* (src/src/tangle.cpp), its gossip handlers and its persistence           *)
(* (src/src/networking_tangle.cpp).                                        *)
(*                                                                         *)
(* A transaction node is identified by a number; its hash is a field of    *)
(* its record, so that two nodes can carry the same hash.  Amounts are     *)
(* whole numbers; cumulative weights are counted in fifths, the unit of    *)
(* ownWeight() = min(miningDifficulty / 5, 1).                             *)
(***************************************************************************)
EXTENDS Integers, Sequences, FiniteSets, TLC

\* ------------------------------------------------------------------ bounds

\* Node objects that can exist (the constructor's genesis included).
MaxNodes == 5
\* Parents a created node may name.
MaxParents == 2
\* Inputs of one transaction.
MaxInputs == 3
\* Largest amount of an output of a genesis handed to setGenesis.
MaxSupply == 2
\* Node objects of the behaviours that call the whole Tangle interface.
StructureNodes == 4
\* Threads inside Tangle::add at the same time.
MaxThreads == 2
\* Transactions made by remote peers.
MaxWire == 3
\* Valid requests handled for one transaction.
MaxCopies == 2
\* Node objects of a tangle that is saved.
SavedNodes == 4
\* Timestamps of the transactions of a tangle that is saved.
MaxTime == 3
\* Node objects of a tangle that is walked.
WalkNodes == 4
\* The largest alpha a walk is called with.
MaxAlpha == 4000

\* ------------------------------------------------------- program constants

\* transaction.hpp:23, the hash that stands for no hash.
INVALID_HASH == 0
\* tangle.cpp:278, the alpha of a walk called without one.
DEFAULT_ALPHA == 10
\* Five times the largest argument std::exp has a finite double for
\* (709.78...), the weights being counted in fifths.
EXP_FINITE_FIFTHS == 3548
\* networking.hpp:412, the capacities between which the queue of held
\* transactions grows and shrinks.
NETWORK_QUEUE_MIN_SIZE == 8
NETWORK_QUEUE_MAX_SIZE == 1024
\* tangle.cpp:483, the largest tip list that is recorded as a candidate.
GENESIS_CANDIDATE_THRESHOLD == 3
\* ownWeight(): miningDifficulty / 5.f capped at 1, here in fifths.
WEIGHT_CAP == 5
\* Default mining difficulty of a transaction.
DEFAULT_DIFFICULTY == 3

Nodes == 1..MaxNodes
NoNode == 0
Accounts == {"a", "b"}

\* ----------------------------------------------------------------- helpers

Range(s) == {s[i] : i \in 1..Len(s)}

\* std::erase(vector, value): every occurrence removed, order kept.
RECURSIVE Erase(_, _)
Erase(s, x) ==
    IF s = <<>> THEN <<>>
    ELSE IF Head(s) = x THEN Erase(Tail(s), x)
    ELSE <<Head(s)>> \o Erase(Tail(s), x)

\* Sum of the amounts of the entries of a list of inputs or outputs that
\* name the account.
RECURSIVE AmountFor(_, _)
AmountFor(entries, account) ==
    IF entries = <<>> THEN 0
    ELSE (IF Head(entries).account = account THEN Head(entries).amount ELSE 0)
         + AmountFor(Tail(entries), account)

RECURSIVE Total(_)
Total(entries) ==
    IF entries = <<>> THEN 0 ELSE Head(entries).amount + Total(Tail(entries))

\* Sequences without repetition over a set, of a length up to n.
RECURSIVE SeqsUpTo(_, _)
SeqsUpTo(S, n) ==
    IF n = 0 THEN {<<>>}
    ELSE LET shorter == SeqsUpTo(S, n - 1)
         IN shorter \cup {Append(s, x) : s \in shorter, x \in S}

Distinct(s) == \A i, j \in 1..Len(s) : i # j => s[i] # s[j]

\* The sorted list of a set of numbers (Transaction's constructor sorts the
\* parent hashes).
RECURSIVE SortedSeq(_)
SortedSeq(S) ==
    IF S = {} THEN <<>>
    ELSE LET m == CHOOSE x \in S : \A y \in S : x <= y
         IN <<m>> \o SortedSeq(S \ {m})

\* ------------------------------------------------------- state of a tangle

\* One transaction: the hash stored with it, the digest of the fields that
\* take part in hashing (timestamp, nonce, inputs, outputs, parent hashes),
\* those fields, whether the signatures of the inputs verify and whether
\* the stored hash meets the mining target.
NullTrx ==
    [hash |-> 0, digest |-> 0, parentHashes |-> <<>>, inputs |-> <<>>,
     outputs |-> <<>>, miningDifficulty |-> DEFAULT_DIFFICULTY,
     timestamp |-> 0, signed |-> TRUE, mined |-> TRUE]

\* Transaction::hashTransaction: the digest of the hashed fields.
hashTransaction(t) == t.digest

\* Transaction::validateTransaction: the stored hash is the digest and
\* every input is signed by its account.
validateTransaction(t) == hashTransaction(t) = t.hash /\ t.signed

\* Transaction::validateTransactionMined.
validateTransactionMined(t) == t.mined

VARIABLES
    genesis,            \* Tangle::genesis, a node
    isGenesis,          \* the nodes whose isGenesis flag is set
    trx,                \* node -> its transaction record
    parents,            \* node -> TransactionNode::parents (a pointer list)
    children,           \* node -> TransactionNode::children (a vector)
    tips,               \* Tangle::tips (a vector)
    cumulativeWeight,   \* node -> TransactionNode::cumulativeWeight, in fifths
    genesisCandidates,  \* Tangle::genesisCandidates, the recorded tip lists
    updateWeights,      \* Tangle::updateWeights
    weightTasks,        \* pending detached weight threads: source -> count
    created,            \* number of node objects made so far
    result,             \* what the last call did: its name and outcome
    threads,            \* thread -> where it is in its call of add
    started,            \* the tangle when the threads began, if they did
    wire,               \* the transactions remote peers have made
    networkAdditionQueue, \* NetworkedTangle::networkAdditionQueue
    queueCapacity,      \* capacity of the container of that queue
    peerKeys,           \* the peers whose public key is known
    handled,            \* wire transaction -> valid requests handled for it
    genesisSyncExpectedHash, \* NetworkedTangle::genesisSyncExpectedHash
    file,               \* the transactions written by saveTangle, in order
    savedFrom,          \* the hashes and the genesis hash of the saved tangle
    process,            \* "first", "fresh" (a new tangle), or "loaded"
    weightQueue,        \* the queue of a weight thread that is running
    weighing,           \* the weight threads running at once, step by step
    streaming,          \* the TangleSynchronizeRequest handler that is running
    pruning,            \* the call of prune that is waiting for the mutex
    genesisVotes,       \* NetworkedTangle::genesisVotes, or none
    connected,          \* network.peers(), the peers that are connected
    lastSent,           \* peer -> PublicKeySyncRequest::lastSent of its process
    keyMail,            \* the key messages on their way, by kind and recipient
    remoteKeys,         \* the remote peers that know the key of this one
    blankKeys,          \* the peers whose entry of peerKeys holds no key
    granting            \* the peers a thread is about to pay (main.cpp:161)

weightVars == <<weightQueue, weighing>>

tangleVars ==
    <<genesis, isGenesis, trx, parents, children, tips, cumulativeWeight,
      genesisCandidates, updateWeights, weightTasks, created>>

\* The tangle as one value, for the operators below.
Tangle ==
    [genesis |-> genesis, isGenesis |-> isGenesis, trx |-> trx,
     parents |-> parents, children |-> children, tips |-> tips,
     cumulativeWeight |-> cumulativeWeight,
     genesisCandidates |-> genesisCandidates,
     updateWeights |-> updateWeights, weightTasks |-> weightTasks,
     created |-> created]

threadVars == <<threads, started, streaming, pruning>>

netVars ==
    <<wire, networkAdditionQueue, queueCapacity, peerKeys, handled,
      genesisSyncExpectedHash>>

diskVars == <<file, savedFrom, process>>

\* The exchange of keys with a remote peer.
\* The entries of peerKeys made without a key, and who makes them.
entryVars == <<blankKeys, granting>>

keyVars == <<lastSent, keyMail, remoteKeys, entryVars>>

voteVars == <<genesisVotes, connected, keyVars>>

\* A call of the Tangle interface by the local peer, no other call in
\* progress.
Sequential ==
    /\ started = <<>>
    /\ UNCHANGED threadVars
    /\ UNCHANGED netVars
    /\ UNCHANGED diskVars
    /\ UNCHANGED weightVars
    /\ UNCHANGED voteVars

Install(st) ==
    /\ genesis' = st.genesis
    /\ isGenesis' = st.isGenesis
    /\ trx' = st.trx
    /\ parents' = st.parents
    /\ children' = st.children
    /\ tips' = st.tips
    /\ cumulativeWeight' = st.cumulativeWeight
    /\ genesisCandidates' = st.genesisCandidates
    /\ updateWeights' = st.updateWeights
    /\ weightTasks' = st.weightTasks
    /\ created' = st.created

\* The source of a weight thread started by setGenesis: it reads
\* this->genesis when it runs.
GenesisTask == 0
\* The source of the weight thread started by UpdateWeightsRequest: it
\* reads the tip list when it runs.
TipsTask == -1

\* std::thread(...).detach(): one more pending thread for the source.
Spawn(st, source) ==
    [st EXCEPT !.weightTasks[source] = @ + 1]

\* ------------------------------------------------------------ find (BFS)

\* The loop over head's children of find and queryBalance: a child is
\* queued unless its hash was considered before.
RECURSIVE PushChildren(_, _, _, _)
PushChildren(st, kids, q, considered) ==
    IF kids = <<>> THEN [q |-> q, considered |-> considered]
    ELSE LET child == Head(kids)
             h == st.trx[child].hash
         IN IF h \in considered
            THEN PushChildren(st, Tail(kids), q, considered)
            ELSE PushChildren(st, Tail(kids), Append(q, child),
                              considered \cup {h})

\* TransactionNode::find from the nodes of the queue.
RECURSIVE FindFrom(_, _, _, _)
FindFrom(st, q, considered, hash) ==
    IF q = <<>> THEN NoNode
    ELSE LET head == Head(q)
             next == PushChildren(st, st.children[head], Tail(q), considered)
         IN IF st.trx[head].hash = hash THEN head
            ELSE IF head \in st.isGenesis
                    /\ hash \in Range(st.trx[head].parentHashes) THEN head
            ELSE FindFrom(st, next.q, next.considered, hash)

\* Tangle::find: the search starts at the genesis.
find(st, hash) == FindFrom(st, <<st.genesis>>, {}, hash)

\* The nodes find can reach from the genesis, in the order of its search.
RECURSIVE ListFrom(_, _, _)
ListFrom(st, q, considered) ==
    IF q = <<>> THEN <<>>
    ELSE LET head == Head(q)
             next == PushChildren(st, st.children[head], Tail(q), considered)
         IN <<head>> \o ListFrom(st, next.q, next.considered)

Reachable(st) == Range(ListFrom(st, <<st.genesis>>, {}))

\* ---------------------------------------------------------- queryBalance

\* Tangle::queryBalance with a confidence threshold of 0: the walk from the
\* genesis, the inputs of each node taken off before its outputs are put
\* on, InvalidBalance as soon as the balance is negative.
RECURSIVE BalanceFrom(_, _, _, _, _)
BalanceFrom(st, q, considered, account, balance) ==
    IF q = <<>> THEN [ok |-> TRUE, balance |-> balance]
    ELSE LET head == Head(q)
             afterInputs == balance - AmountFor(st.trx[head].inputs, account)
             afterOutputs ==
                 afterInputs + AmountFor(st.trx[head].outputs, account)
             next == PushChildren(st, st.children[head], Tail(q), considered)
         IN IF afterInputs < 0 THEN [ok |-> FALSE, balance |-> afterInputs]
            ELSE IF afterOutputs < 0
            THEN [ok |-> FALSE, balance |-> afterOutputs]
            ELSE BalanceFrom(st, next.q, next.considered, account,
                             afterOutputs)

queryBalance(st, account) == BalanceFrom(st, <<st.genesis>>, {}, account, 0)

\* ------------------------------------------------------------ Tangle::add

\* Transaction::validateTransactionTotals: the inputs cover the outputs.
validateTransactionTotals(t) == Total(t.inputs) >= Total(t.outputs)

\* Position of the first entry of the balance list kept for the account,
\* 0 when there is none.
CachedAt(balanceMap, account) ==
    IF \E j \in 1..Len(balanceMap) : balanceMap[j].account = account
    THEN CHOOSE j \in 1..Len(balanceMap) :
            /\ balanceMap[j].account = account
            /\ \A k \in 1..(j - 1) : balanceMap[k].account # account
    ELSE 0

\* The loop of add over the inputs.  The counter i of the search is
\* incremented before the comparison, so after a hit at position j (from 1)
\* it holds j, and after a miss the size of the list; the balance is then
\* appended when i equals the size and written at index i (from 0), which
\* is position i + 1, otherwise.
RECURSIVE CheckInputs(_, _, _)
CheckInputs(st, inputs, balanceMap) ==
    IF inputs = <<>> THEN TRUE
    ELSE LET input == Head(inputs)
             hit == CachedAt(balanceMap, input.account)
             i == IF hit = 0 THEN Len(balanceMap) ELSE hit
             cached == IF hit = 0 THEN -1 ELSE balanceMap[hit].balance
             queried == queryBalance(st, input.account)
             balance ==
                 (IF cached < 0 THEN queried.balance ELSE cached) - input.amount
             entry == [account |-> input.account, balance |-> balance]
         IN IF cached < 0 /\ ~queried.ok THEN FALSE
            ELSE IF balance < 0 THEN FALSE
            ELSE IF i = Len(balanceMap)
            THEN CheckInputs(st, Tail(inputs), Append(balanceMap, entry))
            ELSE CheckInputs(st, Tail(inputs),
                             [balanceMap EXCEPT ![i + 1].balance = balance])

\* The first loop of add over the parents: the first failure, or "ok".
RECURSIVE CheckParents(_, _, _)
CheckParents(st, node, ps) ==
    IF ps = <<>> THEN "ok"
    ELSE LET parent == Head(ps)
         IN IF find(st, st.trx[parent].hash) = NoNode THEN "NodeNotFound"
            ELSE IF \E i \in 1..Len(st.children[parent]) :
                       st.trx[st.children[parent][i]].hash = st.trx[node].hash
            THEN "AlreadyChild"
            ELSE CheckParents(st, node, Tail(ps))

\* The checks of add with validateTransaction left out.
ValidationWithoutHash(st, node) ==
    IF ~validateTransactionTotals(st.trx[node]) THEN "InvalidTotals"
    ELSE IF ~validateTransactionMined(st.trx[node]) THEN "NotMined"
    ELSE IF ~CheckInputs(st, st.trx[node].inputs, <<>>) THEN "InvalidBalance"
    ELSE "ok"

\* The checks of add that come before its parents are looked at.
ValidationOutcome(st, node) ==
    IF ~validateTransaction(st.trx[node]) THEN "InvalidTransaction"
    ELSE IF ~validateTransactionTotals(st.trx[node]) THEN "InvalidTotals"
    ELSE IF ~validateTransactionMined(st.trx[node]) THEN "NotMined"
    ELSE IF ~CheckInputs(st, st.trx[node].inputs, <<>>) THEN "InvalidBalance"
    ELSE "ok"

\* The checks of add, in the order of the code.
AddOutcome(st, node) ==
    IF ValidationOutcome(st, node) # "ok" THEN ValidationOutcome(st, node)
    ELSE CheckParents(st, node, st.parents[node])

\* The second loop of add over the parents: the parent leaves the tips, the
\* node becomes a child of the node found under the parent's hash and is
\* pushed on the tips.
RECURSIVE AttachToParents(_, _, _)
AttachToParents(st, node, ps) ==
    IF ps = <<>> THEN st
    ELSE LET parent == Head(ps)
             target == find(st, st.trx[parent].hash)
             attached ==
                 [st EXCEPT !.tips = Append(Erase(@, parent), node),
                            !.children[target] = Append(@, node)]
         IN AttachToParents(attached, node, Tail(ps))

\* Tangle::genesisCandidates.push: the buffer keeps the latest tip lists.
PushCandidate(buffer, tipList) ==
    LET all == Append(buffer, tipList)
    IN IF Len(all) <= GENESIS_CANDIDATE_THRESHOLD THEN all ELSE Tail(all)

\* The end of the critical region of add: the weight thread and the
\* candidate.
AddFinish(st, node) ==
    LET spawned == IF st.updateWeights THEN Spawn(st, node) ELSE st
    IN IF Len(spawned.tips) <= GENESIS_CANDIDATE_THRESHOLD
       THEN [spawned EXCEPT
                !.genesisCandidates = PushCandidate(@, spawned.tips)]
       ELSE spawned

\* The critical region of add.
AddCommit(st, node) ==
    AddFinish(AttachToParents(st, node, st.parents[node]), node)

\* A variant of add with one loop over the parents, each parent checked and
\* attached to at once (what the note at tangle.cpp:465 rules out).
RECURSIVE CheckAndAttach(_, _, _)
CheckAndAttach(st, node, ps) ==
    IF ps = <<>> THEN [st |-> AddFinish(st, node), outcome |-> "ok"]
    ELSE LET outcome == CheckParents(st, node, <<Head(ps)>>)
         IN IF outcome # "ok" THEN [st |-> st, outcome |-> outcome]
            ELSE CheckAndAttach(AttachToParents(st, node, <<Head(ps)>>),
                                node, Tail(ps))

TangleAddOneLoop(st, node) ==
    IF ValidationOutcome(st, node) # "ok"
    THEN [st |-> st, outcome |-> ValidationOutcome(st, node)]
    ELSE CheckAndAttach(st, node, st.parents[node])

\* Tangle::add: the tangle after the call and how the call ended.
TangleAdd(st, node) ==
    LET outcome == AddOutcome(st, node)
    IN IF outcome = "ok" THEN [st |-> AddCommit(st, node), outcome |-> "ok"]
       ELSE [st |-> st, outcome |-> outcome]

\* ------------------------------------------------------ Tangle::removeTip

\* The loop of removeTip over the parents of the tip.
RECURSIVE DetachFromParents(_, _, _)
DetachFromParents(st, tip, ps) ==
    IF ps = <<>> THEN st
    ELSE LET parent == Head(ps)
             kids == Erase(st.children[parent], tip)
             detached ==
                 [st EXCEPT !.children[parent] = kids,
                            !.tips = IF kids = <<>> THEN Append(@, parent)
                                     ELSE @]
         IN DetachFromParents(detached, tip, Tail(ps))

TangleRemoveTip(st, tip) ==
    IF find(st, st.trx[tip].hash) = NoNode
    THEN [st |-> st, outcome |-> "NodeNotFound"]
    ELSE IF st.children[tip] # <<>>
    THEN [st |-> st, outcome |-> "NotATip"]
    ELSE LET detached == DetachFromParents(st, tip, st.parents[tip])
         IN [st |-> [detached EXCEPT !.tips = Erase(@, tip),
                                     !.parents[tip] = <<>>],
             outcome |-> "ok"]

\* ----------------------------------------------------- Tangle::setGenesis

\* The inner loop of setGenesis: while i < tips.size(), removeTip(tips[0]).
RECURSIVE RemoveFrontTips(_, _)
RemoveFrontTips(st, i) ==
    IF i >= Len(st.tips) THEN [st |-> st, outcome |-> "ok"]
    ELSE LET removed == TangleRemoveTip(st, st.tips[1])
         IN IF removed.outcome # "ok" THEN removed
            ELSE RemoveFrontTips(removed.st, i + 1)

\* The outer loop of setGenesis: until the old genesis has no child.  With
\* a child left and no tip to remove the loop never ends.
RECURSIVE DismantleGenesis(_)
DismantleGenesis(st) ==
    IF st.children[st.genesis] = <<>> THEN [st |-> st, outcome |-> "ok"]
    ELSE IF st.tips = <<>> THEN [st |-> st, outcome |-> "hang"]
    ELSE LET pass == RemoveFrontTips(st, 0)
         IN IF pass.outcome # "ok" THEN pass
            ELSE DismantleGenesis(pass.st)

TangleSetGenesis(st, node) ==
    LET flagged == [st EXCEPT !.isGenesis = @ \cup {node}]
        emptied == DismantleGenesis(flagged)
        replaced == [emptied.st EXCEPT !.genesis = node]
    IN IF emptied.outcome # "ok" THEN emptied
       ELSE [st |-> IF replaced.updateWeights
                    THEN Spawn(replaced, GenesisTask) ELSE replaced,
             outcome |-> "ok"]

\* --------------------------------------- Tangle::updateCumulativeWeights

\* TransactionNode::ownWeight, in fifths.
ownWeight(t) ==
    IF t.miningDifficulty < WEIGHT_CAP THEN t.miningDifficulty ELSE WEIGHT_CAP

RECURSIVE SumWeights(_, _)
SumWeights(st, kids) ==
    IF kids = <<>> THEN 0
    ELSE st.cumulativeWeight[Head(kids)] + SumWeights(st, Tail(kids))

\* The queue of updateCumulativeWeights: the head's weight is its own weight
\* plus the weights stored in its children, then all its parents are queued.
RECURSIVE PropagateWeights(_, _)
PropagateWeights(st, q) ==
    IF q = <<>> THEN st
    ELSE LET head == Head(q)
             weight == ownWeight(st.trx[head])
                       + SumWeights(st, st.children[head])
         IN PropagateWeights([st EXCEPT !.cumulativeWeight[head] = weight],
                             Tail(q) \o st.parents[head])

updateCumulativeWeights(st, source) == PropagateWeights(st, <<source>>)

\* updateCumulativeWeights run from every entry of the tip list in turn.
RECURSIVE PropagateFromTips(_, _)
PropagateFromTips(st, from) ==
    IF from = <<>> THEN st
    ELSE PropagateFromTips(updateCumulativeWeights(st, Head(from)), Tail(from))

\* ------------------------------------------------------------ input domains

\* A transfer of one unit from, or to, an account.
Unit(account) == [account |-> account, amount |-> 1]

\* Input lists of a created transaction: up to MaxInputs unit inputs, in any
\* interleaving of the accounts.
RECURSIVE InputLists(_)
InputLists(n) ==
    IF n = 0 THEN {<<>>}
    ELSE LET shorter == InputLists(n - 1)
         IN shorter \cup {Append(s, Unit(a)) : s \in shorter, a \in Accounts}

\* Output lists of a created transaction: nothing, or one unit to an account.
OutputLists == {<<>>} \cup {<<Unit(a)>> : a \in Accounts}

\* Output lists of a genesis: nothing, or the whole supply to one account.
SupplyLists ==
    {<<>>} \cup {<<[account |-> "a", amount |-> n]>> : n \in 1..MaxSupply}

\* Parent lists a caller can hand to TransactionNode::create: node objects
\* made so far, none twice, in any order.
ParentLists(made) ==
    {ps \in SeqsUpTo(1..made, MaxParents) : Distinct(ps)}

\* What can be wrong with a transaction handed to add.
Defects == {"none", "hash", "signature", "unmined"}

\* TransactionNode::create(parents, inputs, outputs): the node object, its
\* parent hashes sorted, its hash computed (every object a hash of its own).
MakeNode(st, node, ps, ins, outs, defect) ==
    [st EXCEPT
        !.created = node,
        !.parents[node] = ps,
        !.trx[node] =
            [NullTrx EXCEPT
                !.hash = node,
                !.digest = IF defect = "hash" THEN NoNode ELSE node,
                !.parentHashes = SortedSeq({st.trx[p].hash : p \in Range(ps)}),
                !.inputs = ins,
                !.outputs = outs,
                !.signed = (defect # "signature"),
                !.mined = (defect # "unmined")]]

\* A node object that was refused is dropped by its caller.
Discard(st, node, before) ==
    [st EXCEPT !.created = before.created,
               !.parents[node] = <<>>,
               !.trx[node] = NullTrx]

\* Threads that call add at the same time.
Threads == 1..MaxThreads

\* The peers of the network other than this one.
Voters == {"p", "q", "r"}

\* genesisVotes when no vote is held (a null pointer), and the table of a
\* vote that begins.
NoVotes == [collecting |-> FALSE, table |-> <<>>]

\* A thread that is not in a call.
Idle == [pc |-> "idle", node |-> NoNode, outcome |-> "none"]

\* ------------------------------------------------------------------ Init

\* Tangle(): a genesis without parents, inputs or outputs; no tip, no
\* recorded candidate, weights updated on insertion.
Init ==
    /\ genesis = 1
    /\ isGenesis = {}
    /\ trx = [n \in Nodes |->
                IF n = 1 THEN [NullTrx EXCEPT !.hash = 1, !.digest = 1]
                ELSE NullTrx]
    /\ parents = [n \in Nodes |-> <<>>]
    /\ children = [n \in Nodes |-> <<>>]
    /\ tips = <<>>
    /\ cumulativeWeight = [n \in Nodes |-> 0]
    /\ genesisCandidates = <<>>
    /\ updateWeights = TRUE
    /\ weightTasks = [s \in {TipsTask, GenesisTask} \cup Nodes |-> 0]
    /\ created = 1
    /\ result = [call |-> "Tangle", outcome |-> "ok"]
    /\ threads = [t \in Threads |-> Idle]
    /\ started = <<>>
    /\ wire = <<>>
    /\ networkAdditionQueue = <<>>
    /\ queueCapacity = NETWORK_QUEUE_MIN_SIZE
    /\ peerKeys = {}
    /\ handled = <<>>
    /\ genesisSyncExpectedHash = INVALID_HASH
    /\ file = <<>>
    /\ savedFrom = [hashes |-> {}, genesis |-> INVALID_HASH]
    /\ process = "first"
    /\ weightQueue = <<>>
    /\ weighing = <<>>
    /\ streaming = <<>>
    /\ pruning = <<>>
    /\ genesisVotes = NoVotes
    /\ connected = Voters
    /\ lastSent = [party \in {"self", "p"} |-> "nobody"]
    /\ keyMail = [party \in {"self", "p"} |->
                    [request |-> 0, response |-> 0]]
    /\ remoteKeys = {}
    /\ blankKeys = {}
    /\ granting = {}

\* --------------------------------------------------------------- actions

\* t.setGenesis(TransactionNode::create({}, {}, outputs)).
SetGenesis(outs) ==
    /\ Sequential
    /\ created < MaxNodes
    /\ LET node == created + 1
           made == MakeNode(Tangle, node, <<>>, <<>>, outs, "none")
           r == TangleSetGenesis(made, node)
       IN /\ Install(r.st)
          /\ result' = [call |-> "setGenesis", outcome |-> r.outcome]

\* t.add(TransactionNode::create(parents, inputs, outputs)).
AddNew(ps, ins, outs, defect) ==
    /\ Sequential
    /\ created < MaxNodes
    /\ LET node == created + 1
           made == MakeNode(Tangle, node, ps, ins, outs, defect)
           r == TangleAdd(made, node)
       IN /\ IF r.outcome = "ok" THEN Install(r.st)
             ELSE Install(Discard(r.st, node, Tangle))
          /\ result' = [call |-> "add", outcome |-> r.outcome]

\* t.add(node) of a node object that is attached to its parents already.
AddAgain(node) ==
    /\ Sequential
    /\ node \in 1..created
    /\ parents[node] # <<>>
    /\ LET r == TangleAdd(Tangle, node)
       IN /\ Install(r.st)
          /\ result' = [call |-> "add", outcome |-> r.outcome]

\* t.removeTip(node).
RemoveTip(node) ==
    /\ Sequential
    /\ node \in 1..created
    /\ LET r == TangleRemoveTip(Tangle, node)
       IN /\ Install(r.st)
          /\ result' = [call |-> "removeTip", outcome |-> r.outcome]

\* One detached weight thread runs to its end.
RunWeightTask(source) ==
    /\ Sequential
    /\ weightTasks[source] > 0
    /\ LET from == IF source = GenesisTask THEN genesis ELSE source
           taken == [Tangle EXCEPT !.weightTasks[source] = @ - 1]
       IN IF source = TipsTask THEN Install(PropagateFromTips(taken, tips))
          ELSE Install(updateCumulativeWeights(taken, from))
    /\ result' = [call |-> "updateCumulativeWeights", outcome |-> "ok"]

vars == <<tangleVars, result, threadVars, netVars, diskVars, weightVars, voteVars>>

\* The calls of the Tangle interface, small transactions: at most one input.
Next ==
    \/ \E outs \in SupplyLists : created < StructureNodes /\ SetGenesis(outs)
    \/ \E ps \in ParentLists(created), ins \in InputLists(1),
          outs \in OutputLists, defect \in Defects :
            created < StructureNodes /\ AddNew(ps, ins, outs, defect)
    \/ \E node \in Nodes : AddAgain(node)
    \/ \E node \in Nodes : RemoveTip(node)
    \/ \E source \in {GenesisTask} \cup Nodes : RunWeightTask(source)

Spec == Init /\ [][Next]_vars

\* Genesis replacement and insertion only, transactions of up to MaxInputs
\* inputs: the ledger that sequences of add build.
NextLedger ==
    \/ \E outs \in SupplyLists : created < StructureNodes /\ SetGenesis(outs)
    \/ \E ps \in ParentLists(created), ins \in InputLists(MaxInputs),
          outs \in OutputLists :
            created < StructureNodes /\ AddNew(ps, ins, outs, "none")

SpecLedger == Init /\ [][NextLedger]_vars

\* The same with transactions of at most one input.
NextOrder ==
    \/ \E outs \in SupplyLists : SetGenesis(outs)
    \/ \E ps \in ParentLists(created), ins \in InputLists(1),
          outs \in OutputLists :
            AddNew(ps, ins, outs, "none")

SpecOrder == Init /\ [][NextOrder]_vars

\* ------------------------------------------------------ concurrent adds

\* Two threads call add at the same time (main.cpp:160-190 starts such
\* threads): the first with a new node, the second with a new node or with
\* the node of the first.  The tangle of this moment is kept for comparison.
StartThreads(ps1, ins1, same, ps2, ins2) ==
    /\ started = <<>>
    /\ created + 2 <= StructureNodes
    /\ LET n1 == created + 1
           n2 == IF same THEN n1 ELSE created + 2
           one == MakeNode(Tangle, n1, ps1, ins1, <<>>, "none")
           both == IF same THEN one
                   ELSE MakeNode(one, n2, ps2, ins2, <<>>, "none")
       IN /\ Install(both)
          /\ started' = <<both>>
          /\ threads' = [t \in Threads |->
                            [pc |-> "checking",
                             node |-> IF t = 1 THEN n1 ELSE n2,
                             outcome |-> "none"]]
    /\ result' = [call |-> "thread", outcome |-> "ok"]
    /\ UNCHANGED <<netVars, diskVars, weightVars, voteVars, streaming, pruning>>

\* A thread runs add up to the critical region: every check, no lock held
\* (tangle.cpp:407-458).
ThreadChecks(t) ==
    /\ threads[t].pc = "checking"
    /\ LET outcome == AddOutcome(Tangle, threads[t].node)
       IN threads' = [threads EXCEPT
                        ![t].pc = IF outcome = "ok" THEN "checked" ELSE "done",
                        ![t].outcome = outcome]
    /\ UNCHANGED <<tangleVars, result, started, netVars, diskVars, weightVars,
                   voteVars, streaming, pruning>>

\* A thread runs the critical region of add under the mutex
\* (tangle.cpp:461-485) and returns.
ThreadCommits(t) ==
    /\ threads[t].pc = "checked"
    /\ Install(AddCommit(Tangle, threads[t].node))
    /\ threads' = [threads EXCEPT ![t].pc = "done"]
    /\ UNCHANGED <<result, started, netVars, diskVars, weightVars, voteVars,
                   streaming, pruning>>

\* A funded genesis, then two threads in add.
NextThreads ==
    \/ \E outs \in SupplyLists : created < StructureNodes /\ SetGenesis(outs)
    \/ \E ps1, ps2 \in ParentLists(created), ins1, ins2 \in InputLists(1),
          same \in BOOLEAN :
            StartThreads(ps1, ins1, same, ps2, ins2)
    \/ \E t \in Threads : ThreadChecks(t)
    \/ \E t \in Threads : ThreadCommits(t)

SpecThreads == Init /\ [][NextThreads]_vars

\* Insertion of transactions without transfers and the weight threads the
\* insertions start, run in any order.
NextWeights ==
    \/ \E ps \in ParentLists(created) :
            created < StructureNodes /\ AddNew(ps, <<>>, <<>>, "none")
    \/ \E source \in Nodes : RunWeightTask(source)

SpecWeights == Init /\ [][NextWeights]_vars

\* ---------------------------------------------------------------- gossip

\* The peers that send transactions to this one.
Peers == {"p"}

\* The networked tangle as one value: the tangle, the queue of held
\* transactions with the capacity of its container, the known keys, the
\* votes, the peers that are connected (network.peers()), and the messages
\* the handler at work has sent.
Peer ==
    [t |-> Tangle, queue |-> networkAdditionQueue,
     capacity |-> queueCapacity, peerKeys |-> peerKeys,
     expected |-> genesisSyncExpectedHash, votes |-> genesisVotes,
     peers |-> connected, sent |-> <<>>]

\* network.send_object_to(peer, message).
Send(ns, type, peer) ==
    [ns EXCEPT !.sent = Append(@, [type |-> type, to |-> peer])]

\* network.send_object(message): to every peer.
Everyone == "all"

\* NetworkedTangle::add: Tangle::add, which throws when it refuses the node,
\* then the broadcast of an AddTransactionRequest for the node.
NetworkedTangleAdd(ns, node) ==
    LET r == TangleAdd(ns.t, node)
    IN [outcome |-> r.outcome,
        ns |-> IF r.outcome = "ok"
               THEN Send([ns EXCEPT !.t = r.st], "AddTransactionRequest",
                         Everyone)
               ELSE [ns EXCEPT !.t = r.st]]

InstallPeer(ns) ==
    /\ Install(ns.t)
    /\ networkAdditionQueue' = ns.queue
    /\ queueCapacity' = ns.capacity
    /\ peerKeys' = ns.peerKeys
    /\ genesisSyncExpectedHash' = ns.expected

\* std::clamp(v, lo, hi).
Clamp(v, lo, hi) == IF v < lo THEN lo ELSE IF v > hi THEN hi ELSE v

\* A full container doubles whatever its size.
growWithoutBound(ns) ==
    IF Len(ns.queue) = ns.capacity
    THEN [ns EXCEPT !.capacity = Len(ns.queue) * 2]
    ELSE ns

\* NetworkedTangle::growNetworkQueue: a full container doubles.
growNetworkQueue(ns) ==
    IF Len(ns.queue) = ns.capacity /\ Len(ns.queue) < NETWORK_QUEUE_MAX_SIZE
    THEN [ns EXCEPT !.capacity = Clamp(Len(ns.queue) * 2,
                                       NETWORK_QUEUE_MIN_SIZE,
                                       NETWORK_QUEUE_MAX_SIZE)]
    ELSE ns

\* NetworkedTangle::shrinkNetworkQueue: a container at most half full is
\* cut to its contents.
shrinkNetworkQueue(ns) ==
    IF Len(ns.queue) <= ns.capacity \div 2
       /\ Len(ns.queue) > NETWORK_QUEUE_MIN_SIZE
    THEN [ns EXCEPT !.capacity = Len(ns.queue)]
    ELSE ns

\* growNetworkQueue, then networkAdditionQueue.emplace: the ring buffer
\* under the queue gives the place of its oldest entry to the new one when
\* it is full.
Enqueue(ns, entry) ==
    LET grown == growNetworkQueue(ns)
    IN [grown EXCEPT !.queue = IF Len(@) >= grown.capacity
                                THEN Append(Tail(@), entry)
                                ELSE Append(@, entry)]

\* util::removeDuplicates on the parents of a new node: of the nodes with
\* the same hash the first is kept.
RECURSIVE UniqueByHash(_, _, _)
UniqueByHash(st, nodes, seen) ==
    IF nodes = <<>> THEN <<>>
    ELSE IF st.trx[Head(nodes)].hash \in seen
    THEN UniqueByHash(st, Tail(nodes), seen)
    ELSE <<Head(nodes)>>
         \o UniqueByHash(st, Tail(nodes), seen \cup {st.trx[Head(nodes)].hash})

\* The digest of a transaction whose parent hashes were replaced: one that
\* no transaction made has.
Rehashed(t) == 0 - (t.digest + 1)

\* TransactionNode::create(t, trx): the parents are looked up by hash, the
\* parent hashes of the new node are the hashes stored in the parents found,
\* the hash of the new node is computed again.  With other parent hashes
\* the digest is another one, which meets the mining target only by chance.
CreateFrom(st, node, t) ==
    LET found == [k \in 1..Len(t.parentHashes) |->
                     find(st, t.parentHashes[k])]
        hashes == SortedSeq({st.trx[found[k]].hash : k \in 1..Len(found)})
    IN [st EXCEPT
          !.created = node,
          !.parents[node] = UniqueByHash(st, found, {}),
          !.trx[node] =
              IF hashes = t.parentHashes
              THEN [t EXCEPT !.hash = hashTransaction(t)]
              ELSE [t EXCEPT !.parentHashes = hashes,
                             !.digest = Rehashed(t),
                             !.hash = Rehashed(t),
                             !.mined = FALSE]]

\* An attempt that does not verify the signature sent with the transaction.
attemptWithoutVerification(ns, entry) ==
    IF entry.peerID \notin ns.peerKeys
    THEN IF entry.peerID \in ns.peers
         THEN Enqueue(Send(ns, "PublicKeySyncRequest", entry.peerID), entry)
         ELSE ns
    ELSE IF \E k \in 1..Len(entry.transaction.parentHashes) :
               find(ns.t, entry.transaction.parentHashes[k]) = NoNode
    THEN Enqueue(ns, entry)
    ELSE LET node == ns.t.created + 1
             added == TangleAdd(CreateFrom(ns.t, node, entry.transaction),
                                node)
         IN IF added.outcome = "ok" THEN [ns EXCEPT !.t = added.st]
            ELSE [ns EXCEPT !.t = Discard(added.st, node, ns.t)]

\* An attempt that adds the transaction with NetworkedTangle::add.
attemptWithEcho(ns, entry) ==
    IF entry.peerID \notin ns.peerKeys
    THEN IF entry.peerID \in ns.peers
         THEN Enqueue(Send(ns, "PublicKeySyncRequest", entry.peerID), entry)
         ELSE ns
    ELSE IF ~entry.signed THEN ns
    ELSE IF \E k \in 1..Len(entry.transaction.parentHashes) :
               find(ns.t, entry.transaction.parentHashes[k]) = NoNode
    THEN Enqueue(ns, entry)
    ELSE LET node == ns.t.created + 1
             made == [ns EXCEPT
                         !.t = CreateFrom(ns.t, node, entry.transaction)]
             added == NetworkedTangleAdd(made, node)
         IN IF added.outcome = "ok" THEN added.ns
            ELSE [ns EXCEPT !.t = Discard(added.ns.t, node, ns.t)]

\* AddTransactionRequestBase::attemptToAddTransaction.  An entry is a
\* transaction with the peer that sent it and whether the signature sent
\* with it verifies under the key of that peer.  Whatever is thrown is
\* caught and the transaction dropped; peers.at throws for a sender that is
\* not a connected peer.
attemptToAddTransaction(ns, entry) ==
    IF entry.peerID \notin ns.peerKeys
    THEN IF entry.peerID \in ns.peers
         THEN Enqueue(Send(ns, "PublicKeySyncRequest", entry.peerID), entry)
         ELSE ns
    ELSE IF ~entry.signed THEN ns
    ELSE IF \E k \in 1..Len(entry.transaction.parentHashes) :
               find(ns.t, entry.transaction.parentHashes[k]) = NoNode
    THEN Enqueue(ns, entry)
    ELSE LET node == ns.t.created + 1
             added == TangleAdd(CreateFrom(ns.t, node, entry.transaction),
                                node)
         IN IF added.outcome = "ok" THEN [ns EXCEPT !.t = added.st]
            ELSE [ns EXCEPT !.t = Discard(added.st, node, ns.t)]

\* A loop that takes the entries from the queue and tries none again.
DrainAndForget(ns, listSize) ==
    [ns EXCEPT !.queue = SubSeq(@, listSize + 1, Len(@))]

\* The loop of the listener over the queue: as many entries as the queue
\* held when the loop began are taken from the front and tried again.  A
\* loop of more than one round is the loop over its first half followed by
\* the loop over the rest.
RECURSIVE DrainQueue(_, _)
DrainQueue(ns, listSize) ==
    IF listSize = 0 THEN ns
    ELSE IF listSize = 1
    THEN attemptToAddTransaction([ns EXCEPT !.queue = Tail(@)],
                                 Head(ns.queue))
    ELSE CHOOSE after \in
             {DrainQueue(half, listSize - listSize \div 2) :
                 half \in {DrainQueue(ns, listSize \div 2)}} : TRUE

\* A listener that tries the received transaction and leaves the queue
\* alone.
ListenerWithoutDrain(ns, message) ==
    IF message.transaction.hash # message.validityHash THEN ns
    ELSE attemptToAddTransaction(ns,
            [transaction |-> message.transaction,
             peerID |-> message.peerID, signed |-> message.signed])

\* AddTransactionRequestBase::listener.
AddTransactionListener(ns, message) ==
    IF message.transaction.hash # message.validityHash THEN ns
    ELSE LET tried == attemptToAddTransaction(ns,
                        [transaction |-> message.transaction,
                         peerID |-> message.peerID,
                         signed |-> message.signed])
         IN shrinkNetworkQueue(DrainQueue(tried, Len(tried.queue)))

\* Hash of the k-th transaction made by a remote peer.
WireHash(k) == MaxNodes + k

\* Parent hashes a remote peer can name: the genesis and the transactions
\* made before.
KnownHashes == {trx[genesis].hash} \cup {wire[k].hash : k \in 1..Len(wire)}

\* A remote peer makes a valid transaction without transfers on parents it
\* knows (TransactionNode::createAndMine on its tangle).
RemoteCreates(hashes) ==
    /\ started = <<>>
    /\ Len(wire) < MaxWire
    /\ Len(wire) + 3 <= MaxNodes
    /\ hashes # {}
    /\ Cardinality(hashes) <= MaxParents
    /\ wire' = Append(wire,
                      [NullTrx EXCEPT
                          !.hash = WireHash(Len(wire) + 1),
                          !.digest = WireHash(Len(wire) + 1),
                          !.parentHashes = SortedSeq(hashes)])
    /\ handled' = Append(handled, 0)
    /\ result' = [call |-> "remote", outcome |-> "ok"]
    /\ UNCHANGED <<tangleVars, threadVars, networkAdditionQueue,
                   queueCapacity, peerKeys, genesisSyncExpectedHash,
                   diskVars, weightVars, voteVars>>

\* PublicKeySyncResponse::listener: the key of the sender is kept when the
\* signature sent with it verifies.
ReceiveKey(peer, verified) ==
    /\ started = <<>>
    /\ peerKeys' = IF verified THEN peerKeys \cup {peer} ELSE peerKeys
    /\ result' = [call |-> "PublicKeySyncResponse",
                  outcome |-> IF verified THEN "ok" ELSE "unverified"]
    /\ UNCHANGED <<tangleVars, threadVars, wire, networkAdditionQueue,
                   queueCapacity, handled, genesisSyncExpectedHash,
                   diskVars, weightVars, voteVars>>

\* The AddTransactionRequest a peer sends for a transaction, as it arrives:
\* the transaction deserialized (its hash computed again), the hash and the
\* signature sent with it.
Request(k, peer, defect) ==
    [transaction |-> [wire[k] EXCEPT !.hash = hashTransaction(wire[k])],
     validityHash |-> IF defect = "hash" THEN NoNode ELSE wire[k].hash,
     peerID |-> peer,
     signed |-> (defect # "signature")]

\* An AddTransactionRequest for the k-th remote transaction is handled.
Deliver(k, peer, defect) ==
    /\ started = <<>>
    /\ k \in 1..Len(wire)
    /\ handled[k] < MaxCopies
    /\ created < MaxNodes
    /\ LET after == AddTransactionListener(Peer, Request(k, peer, defect))
           valid == defect = "none" /\ peer \in peerKeys
       IN /\ InstallPeer(after)
          /\ handled' = IF valid THEN [handled EXCEPT ![k] = @ + 1]
                         ELSE handled
          /\ result' = [call |-> "AddTransactionRequest",
                        outcome |-> IF defect = "hash" THEN "InvalidHash"
                                    ELSE "ok",
                        wire |-> k, valid |-> valid,
                        added |-> after.t.created - created,
                        peerID |-> peer, signed |-> defect # "signature",
                        sent |-> after.sent]
    /\ UNCHANGED <<threadVars, wire, diskVars, weightVars, voteVars>>

\* What can be wrong with a request.
RequestDefects == {"none", "hash", "signature"}

\* Transactions made elsewhere arrive from a peer whose key is known, in
\* any order and more than once.
NextGossip ==
    \/ \E peer \in Peers, verified \in BOOLEAN : ReceiveKey(peer, verified)
    \/ \E hashes \in SUBSET KnownHashes : RemoteCreates(hashes)
    \/ \E k \in 1..MaxWire, peer \in Peers, defect \in RequestDefects :
            peer \in peerKeys /\ Deliver(k, peer, defect)

SpecGossip == Init /\ [][NextGossip]_vars

\* A transaction with the hash waits in the queue.
Queued(queue, hash) ==
    \E e \in 1..Len(queue) : queue[e].transaction.hash = hash

\* Transactions made elsewhere arrive in any order, before and after the
\* key of the peer that sends them is known; before it is known, a
\* transaction arrives once.
NextOrphan ==
    \/ \E peer \in Peers, verified \in BOOLEAN : ReceiveKey(peer, verified)
    \/ \E hashes \in SUBSET KnownHashes : RemoteCreates(hashes)
    \/ \E k \in 1..MaxWire, peer \in Peers, defect \in RequestDefects :
            /\ k <= Len(wire)
            /\ peer \in peerKeys \/ ~Queued(networkAdditionQueue, wire[k].hash)
            /\ Deliver(k, peer, defect)

SpecOrphan == Init /\ [][NextOrphan]_vars

\* ---------------------------------------------------- saving and loading

\* The id of this process among the peers (network.self().id()).
Self == "self"

\* Tangle::Tangle of a process started later: its genesis is a transaction
\* of its own, with a hash no other transaction has.
FreshHash == MaxNodes + MaxWire + 1

NewTangle(hash) ==
    [genesis |-> 1,
     isGenesis |-> {},
     trx |-> [n \in Nodes |->
                IF n = 1 THEN [NullTrx EXCEPT !.hash = hash, !.digest = hash]
                ELSE NullTrx],
     parents |-> [n \in Nodes |-> <<>>],
     children |-> [n \in Nodes |-> <<>>],
     tips |-> <<>>,
     cumulativeWeight |-> [n \in Nodes |-> 0],
     genesisCandidates |-> <<>>,
     updateWeights |-> TRUE,
     weightTasks |-> [s \in {TipsTask, GenesisTask} \cup Nodes |-> 0],
     created |-> 1]

\* TransactionNode::recursivelyListTransactions, the nodes still to visit
\* kept on a stack: a node whose hash is in the list is passed over, any
\* other is put at the end of the list and its children visited next.
RECURSIVE recursivelyListTransactions(_, _, _)
recursivelyListTransactions(st, todo, transactions) ==
    IF todo = <<>> THEN transactions
    ELSE LET node == Head(todo)
         IN IF \E i \in 1..Len(transactions) :
                    st.trx[transactions[i]].hash = st.trx[node].hash
            THEN recursivelyListTransactions(st, Tail(todo), transactions)
            ELSE recursivelyListTransactions(st,
                    st.children[node] \o Tail(todo),
                    Append(transactions, node))

\* Tangle::listTransactions.
listTransactions(st) == recursivelyListTransactions(st, <<st.genesis>>, <<>>)

\* The comparison saveTangle sorts by: the genesis before anything, then
\* the earlier timestamp first.
SavedBefore(first, a, b) ==
    IF a.hash = first.hash THEN TRUE
    ELSE IF b.hash = first.hash THEN FALSE
    ELSE a.timestamp < b.timestamp

\* std::list::sort, which is stable: each transaction goes in front of the
\* first one it compares before.
RECURSIVE SortForSave(_, _, _)
SortForSave(first, todo, sorted) ==
    IF todo = <<>> THEN sorted
    ELSE LET t == Head(todo)
             later == {i \in 1..Len(sorted) : SavedBefore(first, t, sorted[i])}
             at == IF later = {} THEN Len(sorted) + 1
                   ELSE CHOOSE i \in later : \A j \in later : i <= j
         IN SortForSave(first, Tail(todo),
                SubSeq(sorted, 1, at - 1) \o <<t>>
                    \o SubSeq(sorted, at, Len(sorted)))

\* operator<< of a Transaction: every field but the hash is written.
Serialize(t) ==
    [digest |-> t.digest, parentHashes |-> t.parentHashes,
     inputs |-> t.inputs, outputs |-> t.outputs,
     miningDifficulty |-> t.miningDifficulty, timestamp |-> t.timestamp,
     signed |-> t.signed, mined |-> t.mined]

\* operator>> of a Transaction: the fields are read and the hash computed
\* from them.
Deserialize(e) ==
    [hash |-> hashTransaction(e), digest |-> e.digest,
     parentHashes |-> e.parentHashes, inputs |-> e.inputs,
     outputs |-> e.outputs, miningDifficulty |-> e.miningDifficulty,
     timestamp |-> e.timestamp, signed |-> e.signed, mined |-> e.mined]

\* NetworkedTangle::saveTangle: what is written to the stream.
saveTangle(st) ==
    LET listed == listTransactions(st)
        transactions == [i \in 1..Len(listed) |-> st.trx[listed[i]]]
        sorted == SortForSave(transactions[1], transactions, <<>>)
    IN [i \in 1..Len(sorted) |-> Serialize(sorted[i])]

\* SyncGenesisRequest(trx, keys) as this process sends it to itself.
GenesisRequest(t) ==
    [genesis |-> t, claimedHash |-> t.hash,
     actualHash |-> hashTransaction(t), peerID |-> Self, signed |-> TRUE]

\* A listener that takes the genesis of any request while one is expected,
\* whatever its hash.
SyncAnyGenesisListener(ns, request) ==
    LET message == [request EXCEPT !.genesis.hash = request.claimedHash]
        sender == message.peerID
    IN IF ns.expected = INVALID_HASH THEN ns
       ELSE IF ns.t.trx[ns.t.genesis].hash = message.genesis.hash THEN ns
       ELSE IF hashTransaction(message.genesis) # message.actualHash THEN ns
       ELSE IF sender \notin ns.peerKeys
       THEN Send(Send(ns, "PublicKeySyncRequest", sender),
                 "TangleSynchronizeRequest", sender)
       ELSE IF ~message.signed THEN ns
       ELSE IF message.genesis.inputs # <<>> THEN ns
       ELSE IF \E k \in 1..Len(message.genesis.parentHashes) :
                  find(ns.t, message.genesis.parentHashes[k]) = NoNode
       THEN ns
       ELSE LET node == ns.t.created + 1
                set == TangleSetGenesis(
                          CreateFrom(ns.t, node, message.genesis), node)
            IN IF set.outcome # "ok" THEN [ns EXCEPT !.t = set.st]
               ELSE [ns EXCEPT
                       !.t = [set.st EXCEPT
                                 !.trx[node].hash = message.claimedHash],
                       !.expected = INVALID_HASH]

\* SyncGenesisRequest::listener.  The message is read with the hash of its
\* genesis set to the claimed hash; a request that is refused leaves the
\* tangle as it is.
SyncGenesisListener(ns, request) ==
    LET message == [request EXCEPT !.genesis.hash = request.claimedHash]
        sender == message.peerID
    IN IF ns.expected = INVALID_HASH THEN ns
       ELSE IF ns.t.trx[ns.t.genesis].hash = message.genesis.hash THEN ns
       ELSE IF ns.expected # message.genesis.hash THEN ns
       ELSE IF hashTransaction(message.genesis) # message.actualHash THEN ns
       ELSE IF sender \notin ns.peerKeys
       THEN Send(Send(ns, "PublicKeySyncRequest", sender),
                 "TangleSynchronizeRequest", sender)
       ELSE IF ~message.signed THEN ns
       ELSE IF message.genesis.inputs # <<>> THEN ns
       ELSE IF \E k \in 1..Len(message.genesis.parentHashes) :
                  find(ns.t, message.genesis.parentHashes[k]) = NoNode
       THEN ns
       ELSE LET node == ns.t.created + 1
                set == TangleSetGenesis(
                          CreateFrom(ns.t, node, message.genesis), node)
            IN IF set.outcome # "ok" THEN [ns EXCEPT !.t = set.st]
               ELSE [ns EXCEPT
                       !.t = [set.st EXCEPT
                                 !.trx[node].hash = message.claimedHash],
                       !.expected = INVALID_HASH]

\* SynchronizationAddTransactionRequest::listener: the flag is not put
\* back when the base listener throws.
SynchronizationAddListener(ns, message) ==
    LET off == [ns EXCEPT !.t.updateWeights = FALSE]
    IN IF message.transaction.hash # message.validityHash THEN off
       ELSE [AddTransactionListener(off, message) EXCEPT
                !.t.updateWeights = TRUE]

\* UpdateWeightsRequest::listener: a detached thread that walks the tips.
UpdateWeightsListener(ns) == [ns EXCEPT !.t = Spawn(@, TipsTask)]

\* The loop of loadTangle over the transactions after the first.
RECURSIVE LoadRest(_, _)
LoadRest(ns, entries) ==
    IF entries = <<>> THEN ns
    ELSE LET t == Deserialize(Head(entries))
             message == [transaction |-> t, validityHash |-> t.hash,
                         peerID |-> Self, signed |-> TRUE]
         IN LoadRest(SynchronizationAddListener(ns, message), Tail(entries))

\* NetworkedTangle::loadTangle: each request is handled as it is sent.
loadTangle(ns, stream) ==
    LET first == Deserialize(Head(stream))
        expecting == [ns EXCEPT !.expected = first.hash]
        synced == SyncGenesisListener(expecting, GenesisRequest(first))
    IN UpdateWeightsListener(LoadRest(synced, Tail(stream)))

\* NetworkedTangle::setKeyPair: the own key is kept with the keys of the
\* peers.
SetKeyPair ==
    /\ started = <<>>
    /\ Self \notin peerKeys
    /\ peerKeys' = peerKeys \cup {Self}
    /\ result' = [call |-> "setKeyPair", outcome |-> "ok"]
    /\ UNCHANGED <<tangleVars, threadVars, wire, networkAdditionQueue,
                   queueCapacity, handled, genesisSyncExpectedHash,
                   diskVars, weightVars, voteVars>>

\* A transaction without transfers enters the tangle; its timestamp is the
\* reading of the clock of the process that made it.
AddStamped(ps, timestamp) ==
    /\ Sequential
    /\ process = "first"
    /\ created < SavedNodes
    /\ ps # <<>>
    /\ LET node == created + 1
           made == MakeNode(Tangle, node, ps, <<>>, <<>>, "none")
           stamped == [made EXCEPT !.trx[node].timestamp = timestamp]
           r == TangleAdd(stamped, node)
       IN /\ IF r.outcome = "ok" THEN Install(r.st)
             ELSE Install(Discard(r.st, node, Tangle))
          /\ result' = [call |-> "add", outcome |-> r.outcome]

\* saveTangle writes the tangle to a file.
Save ==
    /\ started = <<>>
    /\ process = "first"
    /\ file = <<>>
    /\ file' = saveTangle(Tangle)
    /\ savedFrom' = [hashes |-> {trx[n].hash : n \in Reachable(Tangle)},
                     genesis |-> trx[genesis].hash]
    /\ result' = [call |-> "saveTangle", outcome |-> "ok"]
    /\ UNCHANGED <<tangleVars, threadVars, netVars, process, weightVars, voteVars>>

\* NetworkedTangle::NetworkedTangle: a fresh tangle takes the place of the
\* saved one, as constructed, with no keys and an empty queue.
Restart ==
    /\ started = <<>>
    /\ process = "first"
    /\ file # <<>>
    /\ Install(NewTangle(FreshHash))
    /\ networkAdditionQueue' = <<>>
    /\ queueCapacity' = NETWORK_QUEUE_MIN_SIZE
    /\ peerKeys' = {}
    /\ genesisSyncExpectedHash' = INVALID_HASH
    /\ process' = "fresh"
    /\ result' = [call |-> "Tangle", outcome |-> "ok"]
    /\ UNCHANGED <<threadVars, wire, handled, file, savedFrom, weightVars, voteVars>>

\* loadTangle reads the file into the tangle of the new process, whose key
\* pair is set.
Load ==
    /\ started = <<>>
    /\ process = "fresh"
    /\ Self \in peerKeys
    /\ InstallPeer(loadTangle(Peer, file))
    /\ process' = "loaded"
    /\ result' = [call |-> "loadTangle", outcome |-> "ok"]
    /\ UNCHANGED <<threadVars, wire, handled, file, savedFrom, weightVars, voteVars>>

\* A tangle is built, saved, and loaded by the process started next.
NextPersist ==
    \/ SetKeyPair
    \/ \E ps \in ParentLists(created), timestamp \in 1..MaxTime :
            AddStamped(ps, timestamp)
    \/ Save
    \/ Restart
    \/ Load
    \/ \E source \in {TipsTask} : RunWeightTask(source)

SpecPersist == Init /\ [][NextPersist]_vars

\* ------------------------------------------------------ the biased walk

\* std::exp(-alpha * (cumulativeWeight - child->cumulativeWeight)) is
\* infinite: the child is heavier than the node by more than exp can take.
WeightOverflows(st, node, child, alpha) ==
    alpha * (st.cumulativeWeight[child] - st.cumulativeWeight[node])
        > EXP_FINITE_FIFTHS

\* TransactionNode::biasedRandomWalk, every way it can end.  A node without
\* children is returned.  With finite weights the sum w of the loop
\* reaches totalWeight, which is more than the number drawn, before the
\* iterator reaches the end: any child can be the one chosen.  With an
\* infinite weight totalWeight and the number drawn are infinite, w <= random
\* stays true, the iterator is moved to end() and dereferenced: the call
\* may return any node or none.
RECURSIVE biasedRandomWalk(_, _, _)
biasedRandomWalk(st, node, alpha) ==
    LET kids == st.children[node]
    IN IF kids = <<>> THEN {[outcome |-> "ok", node |-> node]}
       ELSE IF \E i \in 1..Len(kids) :
                    WeightOverflows(st, node, kids[i], alpha)
       THEN {[outcome |-> "undefined", node |-> n] :
                n \in (1..st.created) \cup {NoNode}}
       ELSE UNION {biasedRandomWalk(st, kids[i], alpha) : i \in 1..Len(kids)}

\* A weight thread begins to run: updateCumulativeWeights pushes its source
\* on the queue.
StartWeightThread(source) ==
    /\ started = <<>>
    /\ weightQueue = <<>>
    /\ weightTasks[source] > 0
    /\ LET from == IF source = GenesisTask THEN genesis ELSE source
       IN weightQueue' = <<from>>
    /\ weightTasks' = [weightTasks EXCEPT ![source] = @ - 1]
    /\ result' = [call |-> "updateCumulativeWeights", outcome |-> "ok"]
    /\ UNCHANGED <<genesis, isGenesis, trx, parents, children, tips,
                   cumulativeWeight, genesisCandidates, updateWeights,
                   created, threadVars, netVars, diskVars,
                   weighing, voteVars>>

\* One turn of the loop of updateCumulativeWeights in the running thread:
\* the head is weighed and its parents are queued.
WeightStep ==
    /\ started = <<>>
    /\ weightQueue # <<>>
    /\ LET head == Head(weightQueue)
       IN /\ cumulativeWeight' =
                [cumulativeWeight EXCEPT
                    ![head] = ownWeight(trx[head])
                                + SumWeights(Tangle, children[head])]
          /\ weightQueue' = Tail(weightQueue) \o parents[head]
    /\ result' = [call |-> "updateCumulativeWeights", outcome |-> "ok"]
    /\ UNCHANGED <<genesis, isGenesis, trx, parents, children, tips,
                   genesisCandidates, updateWeights, weightTasks, created,
                   threadVars, netVars, diskVars,
                   weighing, voteVars>>

\* start->biasedRandomWalk(alpha), called while no transaction is added or
\* removed.
Walk(start, alpha) ==
    /\ started = <<>>
    /\ start \in 1..created
    /\ \E end \in biasedRandomWalk(Tangle, start, alpha) :
            result' = [call |-> "biasedRandomWalk", outcome |-> end.outcome,
                       node |-> end.node, start |-> start, alpha |-> alpha]
    /\ UNCHANGED <<tangleVars, threadVars, netVars, diskVars, weightVars, voteVars>>

\* The alphas a walk is called with.
Alphas == {DEFAULT_ALPHA, MaxAlpha}

\* Transactions are added, the weight threads the additions start run a
\* node at a time, and walks are made in between.
NextWalk ==
    \/ \E ps \in ParentLists(created) :
            created < WalkNodes /\ ps # <<>>
            /\ AddNew(ps, <<>>, <<>>, "none")
    \/ \E source \in Nodes : StartWeightThread(source)
    \/ WeightStep
    \/ \E start \in Nodes, alpha \in Alphas : Walk(start, alpha)

SpecWalk == Init /\ [][NextWalk]_vars

\* ------------------------------------------------------------- pruning

\* tangle.cpp:322, the levels of parents generateWalkSet goes up.
WALK_LEVELS == 5

\* One level of generateWalkSet: the parents of every node of the set that
\* is not a genesis join the set.
GrowWalkSet(st, set) ==
    set \cup {p \in 1..st.created :
                \E node \in set : node \notin st.isGenesis
                                  /\ p \in Range(st.parents[node])}

RECURSIVE GrowLevels(_, _, _)
GrowLevels(st, set, levels) ==
    IF levels = 0 THEN set
    ELSE GrowLevels(st, GrowWalkSet(st, set), levels - 1)

\* The walk set the node itself and the parents of its children make,
\* nothing above them.
WalkSetWithoutLevels(st, node) ==
    LET kids == Range(st.children[node])
    IN (GrowLevels(st, kids, 1) \ kids) \ {node}

\* generateWalkSet of confirmationConfidence: the children of the node, or
\* the node when it has none, with their parents up to the levels, the
\* children and the node taken out.
generateWalkSet(st, node) ==
    LET kids == Range(st.children[node])
        from == IF kids = {} THEN {node} ELSE kids
        levels == IF kids = {} THEN WALK_LEVELS ELSE WALK_LEVELS + 1
    IN (GrowLevels(st, from, levels) \ kids) \ {node}

\* TransactionNode::isChild: find from the node reaches the hash of the
\* target.
isChild(st, node, target) ==
    FindFrom(st, <<node>>, {}, st.trx[target].hash) # NoNode

\* A walk from the base can end at a tip that the node is an ancestor of.
CanApprove(st, node, base) ==
    \E end \in biasedRandomWalk(st, base, DEFAULT_ALPHA) :
        end.outcome = "undefined" \/ isChild(st, node, end.node)

\* A walk from the base can end at a tip that the node is no ancestor of.
CanMiss(st, node, base) ==
    \E end \in biasedRandomWalk(st, base, DEFAULT_ALPHA) :
        end.outcome = "undefined" \/ ~isChild(st, node, end.node)

\* The length of the walk list: the walk set merged with itself until it
\* has 100 entries.
RECURSIVE WalkListSize(_)
WalkListSize(n) == IF n >= 100 THEN n ELSE WalkListSize(2 * n)

\* TransactionNode::confirmationConfidence, the values it can return: "one"
\* when every walk of the walk list can end under the node and the count of
\* them fits the uint8_t that holds it, "less" when the walk list is empty,
\* a walk can end elsewhere or the count does not fit.
confirmationConfidence(st, node) ==
    LET walkList == generateWalkSet(st, node)
        size == WalkListSize(Cardinality(walkList))
    IN {c \in {"one", "less"} :
          \/ c = "one" /\ walkList # {}
                /\ size % 256 = size
                /\ \A base \in walkList : CanApprove(st, node, base)
          \/ c = "less"
                /\ (walkList = {}
                    \/ size % 256 # size
                    \/ \E base \in walkList : CanMiss(st, node, base))}

\* The loop of createLatestCommonGenesis over the candidates: a candidate is
\* valid when the confidence of each of its members is 1.
CanBeValid(st, candidate) ==
    \A i \in 1..Len(candidate) :
        "one" \in confirmationConfidence(st, candidate[i])

CanBeInvalid(st, candidate) ==
    \E i \in 1..Len(candidate) :
        "less" \in confirmationConfidence(st, candidate[i])

\* The candidates createLatestCommonGenesis can choose, as places in the
\* buffer: the latest valid one; 0 when the buffer is empty or no candidate
\* is valid.
ChosenCandidates(st) ==
    LET buffer == st.genesisCandidates
    IN {c \in 0..Len(buffer) :
          /\ c # 0 => CanBeValid(st, buffer[c])
          /\ \A later \in (c + 1)..Len(buffer) : CanBeInvalid(st, buffer[later])}

\* networking_tangle.cpp:224, a Hash of new Hash[n] that nothing was
\* assigned to: the empty string.
EMPTY_HASH == -1

\* The accounts named by the entries join the list, each once.
RECURSIVE AccountsOf(_, _)
AccountsOf(entries, out) ==
    IF entries = <<>> THEN out
    ELSE LET account == Head(entries).account
         IN AccountsOf(Tail(entries),
                       IF account \in Range(out) THEN out
                       ELSE Append(out, account))

\* listAccounts of createLatestCommonGenesis: the walk from the genesis
\* that does not go below the chosen nodes.
RECURSIVE ListAccountsFrom(_, _, _, _, _)
ListAccountsFrom(st, q, considered, chosenHashes, out) ==
    IF q = <<>> THEN out
    ELSE LET head == Head(q)
             named == AccountsOf(st.trx[head].outputs,
                                 AccountsOf(st.trx[head].inputs, out))
             next == IF st.trx[head].hash \in chosenHashes
                     THEN [q |-> Tail(q), considered |-> considered]
                     ELSE PushChildren(st, st.children[head], Tail(q),
                                       considered)
         IN ListAccountsFrom(st, next.q, next.considered, chosenHashes, named)

\* The loop over head->parents of reverseBalanceQuery: a parent is queued
\* unless its hash was considered before.
RECURSIVE PushParents(_, _, _, _)
PushParents(st, ps, q, considered) ==
    IF ps = <<>> THEN [q |-> q, considered |-> considered]
    ELSE LET parent == Head(ps)
             h == st.trx[parent].hash
         IN IF h \in considered
            THEN PushParents(st, Tail(ps), q, considered)
            ELSE PushParents(st, Tail(ps), Append(q, parent),
                             considered \cup {h})

\* reverseBalanceQuery of createLatestCommonGenesis: the walk from the
\* chosen nodes up their parents.
RECURSIVE ReverseBalanceFrom(_, _, _, _, _)
ReverseBalanceFrom(st, q, considered, account, balance) ==
    IF q = <<>> THEN balance
    ELSE LET head == Head(q)
             after == balance - AmountFor(st.trx[head].inputs, account)
                              + AmountFor(st.trx[head].outputs, account)
             next == PushParents(st, st.parents[head], Tail(q), considered)
         IN ReverseBalanceFrom(st, next.q, next.considered, account, after)

reverseBalanceQuery(st, chosen, account) ==
    ReverseBalanceFrom(st, chosen, {}, account, 0)

\* The parent hashes createLatestCommonGenesis leaves in the new
\* transaction: an array of one entry less than the chosen nodes, written
\* from its second entry on.  The hash of the last chosen node is written
\* behind the array.
AliasHashes(st, chosen) ==
    [i \in 1..(Len(chosen) - 1) |->
        IF i = 1 THEN EMPTY_HASH ELSE st.trx[chosen[i]].hash]

\* NetworkedTangle::createLatestCommonGenesis with the candidate at place c
\* of the buffer chosen (none for 0): the node it returns.  A write behind
\* the array of parent hashes is undefined.
createLatestCommonGenesis(st, c) ==
    IF c = 0 THEN [st |-> st, node |-> st.genesis, outcome |-> "ok"]
    ELSE LET chosen == st.genesisCandidates[c]
             node == st.created + 1
             chosenHashes == {st.trx[chosen[i]].hash : i \in 1..Len(chosen)}
             accounts == ListAccountsFrom(st, <<st.genesis>>, {},
                                          chosenHashes, <<>>)
             outputs == [i \in 1..Len(accounts) |->
                            [account |-> accounts[i],
                             amount |-> reverseBalanceQuery(st, chosen,
                                                            accounts[i])]]
             made == [st EXCEPT
                        !.created = node,
                        !.parents[node] = <<>>,
                        !.trx[node] =
                            [NullTrx EXCEPT
                                !.hash = st.trx[chosen[1]].hash,
                                !.digest = node,
                                !.parentHashes = AliasHashes(st, chosen),
                                !.outputs = outputs]]
         IN [st |-> made, node |-> node,
             outcome |-> IF Len(chosen) > 1 THEN "undefined" ELSE "ok"]

\* util::removeDuplicates(vector): the first of equal entries is kept.
RECURSIVE removeDuplicates(_, _)
removeDuplicates(v, seen) ==
    IF v = <<>> THEN <<>>
    ELSE IF Head(v) \in seen THEN removeDuplicates(Tail(v), seen)
    ELSE <<Head(v)>> \o removeDuplicates(Tail(v), seen \cup {Head(v)})

\* The loop of prune over the parents of a merged node: the child list of
\* each parent is emptied and the parent is put on the tip list.
RECURSIVE MarkParentsAsTips(_, _)
MarkParentsAsTips(st, ps) ==
    IF ps = <<>> THEN st
    ELSE MarkParentsAsTips([st EXCEPT !.children[Head(ps)] = <<>>,
                                      !.tips = Append(@, Head(ps))],
                           Tail(ps))

\* One block of prune for a merged node: its child list is taken (it takes
\* the place of the list taken before) and emptied, its parents are marked.
TakeChildren(work, node) ==
    [st |-> MarkParentsAsTips([work.st EXCEPT !.children[node] = <<>>],
                              work.st.parents[node]),
     children |-> work.st.children[node],
     outcome |-> "ok"]

\* The loop of prune over the parent hashes of the new genesis.  A hash
\* that find does not resolve gives a null pointer that is dereferenced.
RECURSIVE TakeAliasChildren(_, _)
TakeAliasChildren(work, hashes) ==
    IF hashes = <<>> THEN work
    ELSE LET node == find(work.st, Head(hashes))
         IN IF node = NoNode THEN [work EXCEPT !.outcome = "undefined"]
            ELSE TakeAliasChildren(TakeChildren(work, node), Tail(hashes))

\* The last loop of prune: every child of the new genesis gets the genesis
\* as its only parent.
RECURSIVE PointToGenesis(_, _, _)
PointToGenesis(st, kids, node) ==
    IF kids = <<>> THEN st
    ELSE PointToGenesis([st EXCEPT !.parents[Head(kids)] = <<node>>],
                        Tail(kids), node)

\* NetworkedTangle::prune with the candidate at place c chosen.  When
\* setGenesis throws, the tips are not put back.
prune(st, c) ==
    LET made == createLatestCommonGenesis(st, c)
        node == made.node
        originalTips == made.st.tips
        cleared == [made.st EXCEPT !.tips = <<>>]
        first == find(cleared, cleared.trx[node].hash)
        taken == IF first = NoNode
                 THEN [st |-> cleared, children |-> <<>>,
                       outcome |-> "undefined"]
                 ELSE TakeAliasChildren(
                        TakeChildren([st |-> cleared, children |-> <<>>],
                                     first),
                        cleared.trx[node].parentHashes)
        kids == removeDuplicates(taken.children, {})
        moved == [taken.st EXCEPT !.children[node] = kids,
                                  !.tips = removeDuplicates(@, {})]
        situated == PointToGenesis(moved, kids, node)
        set == TangleSetGenesis(situated, node)
    IN IF made.outcome # "ok" THEN [st |-> st, outcome |-> made.outcome]
       ELSE IF taken.outcome # "ok" THEN [st |-> st, outcome |-> taken.outcome]
       ELSE IF set.outcome # "ok" THEN set
       ELSE [st |-> [set.st EXCEPT !.tips = originalTips], outcome |-> "ok"]

\* The calls that did not return: no call follows them.
Returned == result.outcome \notin {"hang", "undefined"}

\* t.prune().
Prune ==
    /\ Sequential
    /\ Returned
    /\ created < MaxNodes
    /\ \E c \in ChosenCandidates(Tangle) :
        \E r \in {prune(Tangle, c)} :
           /\ Install(r.st)
           /\ result' = [call |-> "prune", outcome |-> r.outcome,
                         chosen |-> IF c = 0 THEN <<>>
                                    ELSE genesisCandidates[c],
                         node |-> IF c = 0 THEN genesis ELSE created + 1]

\* Node objects of a tangle that is pruned.
PruneNodes == 4

\* A tangle is built, also from transactions with a wrong hash, and pruned;
\* prune is called when the weight thread of the call before has run.
NextPrune ==
    \/ \E ps \in ParentLists(created), ins \in InputLists(1),
          outs \in OutputLists, defect \in {"none", "hash"} :
            /\ Returned
            /\ created < PruneNodes
            /\ ps # <<>>
            /\ AddNew(ps, ins, outs, defect)
    \/ \E outs \in SupplyLists :
            Returned /\ created = 1 /\ SetGenesis(outs)
    \/ \E source \in {GenesisTask} \cup Nodes :
            Returned /\ RunWeightTask(source)
    \/ weightTasks[GenesisTask] = 0 /\ Prune

SpecPrune == Init /\ [][NextPrune]_vars

\* ------------------------------------------------- genesis vote and sync

\* Votes handled while one vote is held.
MaxVotes == 3

\* Node objects of a tangle that takes part in a vote.
VoteNodes == 2

\* Hashes of the genesis of other peers.
RemoteHashes == {FreshHash + 1, FreshHash + 2}

\* The hash lists peers vote for: the parent hashes of their genesis, then
\* its hash.
Ballots ==
    {<<h>> : h \in RemoteHashes} \cup {<<FreshHash + 2, FreshHash + 1>>}

\* The order of the keys of the vote table: a list of hashes comes before
\* another when it is less at the first place they differ in, or is the
\* beginning of the other.
RECURSIVE Before(_, _)
Before(a, b) ==
    IF b = <<>> THEN FALSE
    ELSE IF a = <<>> THEN TRUE
    ELSE IF Head(a) # Head(b) THEN Head(a) < Head(b)
    ELSE Before(Tail(a), Tail(b))

\* The vote is counted: a list of hashes not voted for before enters the
\* table, at its place, with the voter and one vote.
RECURSIVE CountVote(_, _, _)
CountVote(table, hashes, voter) ==
    IF table = <<>>
    THEN <<[hashes |-> hashes, first |-> voter, votes |-> 1]>>
    ELSE IF Head(table).hashes = hashes
    THEN <<[Head(table) EXCEPT !.votes = @ + 1]>> \o Tail(table)
    ELSE IF Before(hashes, Head(table).hashes)
    THEN <<[hashes |-> hashes, first |-> voter, votes |-> 1]>> \o table
    ELSE <<Head(table)>> \o CountVote(Tail(table), hashes, voter)

\* The votes of the table together.
RECURSIVE TotalVotes(_)
TotalVotes(table) ==
    IF table = <<>> THEN 0 ELSE Head(table).votes + TotalVotes(Tail(table))

\* std::max_element over the table: the first entry that no entry has more
\* votes than.
Best(table) ==
    LET most == CHOOSE i \in 1..Len(table) :
                    /\ \A j \in 1..Len(table) :
                          table[j].votes <= table[i].votes
                    /\ \A j \in 1..(i - 1) : table[j].votes < table[i].votes
    IN table[most]

\* The acceptVote lambda of the listener.
acceptVote(ns, source, expectedHash) ==
    Send([ns EXCEPT !.votes = NoVotes, !.expected = expectedHash],
         "TangleSynchronizeRequest", source)

\* The majority the votes for a list of hashes are compared with.
Majority(ns) == Cardinality(ns.peerKeys) \div 2

\* The vote is accepted when the votes for the list are at least the
\* majority.
AcceptsAtHalf(votes, ns) == votes >= Majority(ns)

\* The vote is accepted when the votes for the list are more than the
\* majority.
AcceptsAboveHalf(votes, ns) == votes > Majority(ns)

\* GenesisVoteResponse::listener; peers are the connected ones.
GenesisVoteListener(ns, peers, message) ==
    IF ~ns.votes.collecting THEN ns
    ELSE IF message.peerID \notin ns.peerKeys
    THEN Send(Send(ns, "PublicKeySyncRequest", message.peerID),
              "GenesisVoteRequest", message.peerID)
    ELSE IF ~message.signed THEN ns
    ELSE LET table == CountVote(ns.votes.table, message.hashes,
                                message.peerID)
             counted == [ns EXCEPT !.votes.table = table]
             mine == CHOOSE i \in 1..Len(table) :
                        table[i].hashes = message.hashes
             best == Best(table)
         IN IF AcceptsAboveHalf(table[mine].votes, ns)
            THEN acceptVote(counted, message.peerID,
                            message.hashes[Len(message.hashes)])
            ELSE IF TotalVotes(table) >= Cardinality(ns.peerKeys) - 1
                    /\ best.first \in peers
            THEN acceptVote(counted, best.first,
                            best.hashes[Len(best.hashes)])
            ELSE counted

\* A vote begins: the table is made, empty.
StartVote ==
    /\ started = <<>>
    /\ ~genesisVotes.collecting
    /\ genesisVotes' = [collecting |-> TRUE, table |-> <<>>]
    /\ result' = [call |-> "GenesisVoteRequest", outcome |-> "ok"]
    /\ UNCHANGED <<tangleVars, threadVars, netVars, diskVars, weightVars,
                   connected, keyVars>>

\* A peer leaves the network.
Disconnect(peer) ==
    /\ started = <<>>
    /\ peer \in connected
    /\ connected' = connected \ {peer}
    /\ result' = [call |-> "disconnect", outcome |-> "ok"]
    /\ UNCHANGED <<tangleVars, threadVars, netVars, diskVars, weightVars,
                   genesisVotes, keyVars>>

\* A GenesisVoteResponse of a connected peer is handled.
DeliverVote(peer, hashes, signed) ==
    /\ started = <<>>
    /\ peer \in connected
    /\ TotalVotes(genesisVotes.table) < MaxVotes
    /\ \E after \in {GenesisVoteListener(Peer, connected,
                        [hashes |-> hashes, peerID |-> peer,
                         signed |-> signed])} :
          /\ genesisVotes' = after.votes
          /\ genesisSyncExpectedHash' = after.expected
          /\ result' = [call |-> "GenesisVoteResponse", outcome |-> "ok",
                        hashes |-> hashes, peerID |-> peer,
                        signed |-> signed, sent |-> after.sent]
    /\ UNCHANGED <<tangleVars, threadVars, wire, networkAdditionQueue,
                   queueCapacity, peerKeys, handled, diskVars, weightVars,
                   connected, keyVars>>

\* The SyncGenesisRequest messages that can arrive: a genesis with or
\* without an input and a parent hash, the hashes and the signature sent
\* with it right or wrong.
GenesisRequests ==
    {[genesis |-> [NullTrx EXCEPT !.hash = claimed, !.digest = digest,
                                  !.inputs = ins, !.parentHashes = aliases],
      claimedHash |-> claimed, actualHash |-> actual,
      peerID |-> peer, signed |-> signed] :
        claimed \in RemoteHashes, digest \in RemoteHashes,
        actual \in RemoteHashes, ins \in {<<>>, <<Unit("a")>>},
        aliases \in {<<>>, <<FreshHash + 2>>},
        peer \in {"p", "q"}, signed \in BOOLEAN}

\* A SyncGenesisRequest of a connected peer is handled.
DeliverGenesis(message) ==
    /\ started = <<>>
    /\ message.peerID \in connected
    /\ created <= VoteNodes
    /\ \E after \in {SyncGenesisListener(Peer, message)} :
          /\ InstallPeer(after)
          /\ result' = [call |-> "SyncGenesisRequest", outcome |-> "ok",
                        message |-> message, sent |-> after.sent]
    /\ UNCHANGED <<threadVars, wire, handled, diskVars, weightVars,
                   voteVars>>

\* Keys arrive, peers leave and a vote is held.
NextVote ==
    \/ SetKeyPair
    \/ \E peer \in Voters : peer \notin peerKeys /\ ReceiveKey(peer, TRUE)
    \/ StartVote
    \/ \E peer \in Voters : Disconnect(peer)
    \/ \E peer \in Voters, hashes \in Ballots, signed \in BOOLEAN :
            DeliverVote(peer, hashes, signed)

SpecVote == Init /\ [][NextVote]_vars

\* A tangle is built, the key of one peer arrives, its vote is accepted and
\* the genesis of a peer is received.
NextSync ==
    \/ peerKeys = {} /\ ReceiveKey("p", TRUE)
    \/ \E ps \in ParentLists(created) :
            created < VoteNodes /\ ps # <<>> /\ AddNew(ps, <<>>, <<>>, "none")
    \/ StartVote
    \/ \E hashes \in Ballots : DeliverVote("p", hashes, TRUE)
    \/ \E message \in GenesisRequests : DeliverGenesis(message)

SpecSync == Init /\ [][NextSync]_vars

\* -------------------------------------------------- local and remote adds

\* Transactions this peer adds itself while requests arrive.
EchoNodes == 2

\* t.add(TransactionNode::create(parents, inputs, outputs)) on the
\* networked tangle, the key pair of this peer set.
AddAndBroadcast(ps, defect) ==
    /\ started = <<>>
    /\ Self \in peerKeys
    /\ created < EchoNodes
    /\ \E r \in {NetworkedTangleAdd(
                    [Peer EXCEPT !.t = MakeNode(Tangle, created + 1, ps,
                                                <<>>, <<>>, defect)],
                    created + 1)} :
          /\ IF r.outcome = "ok" THEN Install(r.ns.t)
             ELSE Install(Discard(r.ns.t, created + 1, Tangle))
          /\ result' = [call |-> "NetworkedTangle::add",
                        outcome |-> r.outcome, node |-> created + 1,
                        sent |-> r.ns.sent]
    /\ UNCHANGED <<threadVars, netVars, diskVars, weightVars, voteVars>>

\* This peer adds transactions of its own and handles the requests for
\* those made elsewhere.
NextEcho ==
    \/ SetKeyPair
    \/ \E peer \in Peers, verified \in BOOLEAN : ReceiveKey(peer, verified)
    \/ \E hashes \in SUBSET KnownHashes :
            Len(wire) < EchoNodes /\ RemoteCreates(hashes)
    \/ \E k \in 1..MaxWire, peer \in Peers, defect \in RequestDefects :
            /\ k <= Len(wire)
            /\ peer \in peerKeys \/ ~Queued(networkAdditionQueue, wire[k].hash)
            /\ created + Len(networkAdditionQueue) < MaxNodes
            /\ Deliver(k, peer, defect)
    \/ \E ps \in ParentLists(created), defect \in Defects :
            AddAndBroadcast(ps, defect)

SpecEcho == Init /\ [][NextEcho]_vars

\* ------------------------------------------------------ the orphan queue

\* Requests with a signature that does not verify that arrive first, and
\* the entries the queue holds at most when the key of the peer arrives.
QueueBad == 2
QueueKept == 20

\* A peer makes a transaction, then a child of it, and sends requests for
\* the child only: first some with a signature that does not verify, then
\* any number with one that does.  Its key arrives late or never.
NextQueue ==
    \/ /\ Len(networkAdditionQueue) <= QueueKept
       /\ "p" \notin peerKeys
       /\ ReceiveKey("p", TRUE)
    \/ \E hashes \in SUBSET KnownHashes :
            /\ Len(wire) < 2
            /\ hashes = {IF wire = <<>> THEN trx[genesis].hash
                         ELSE wire[Len(wire)].hash}
            /\ RemoteCreates(hashes)
    \/ \E defect \in {"none", "signature"} :
            /\ defect = "signature"
                  => /\ Len(networkAdditionQueue) < QueueBad
                     /\ \A e \in 1..Len(networkAdditionQueue) :
                           ~networkAdditionQueue[e].signed
            /\ Deliver(2, "p", defect)

SpecQueue == Init /\ [][NextQueue]_vars

\* ------------------------------------------------- confirmation confidence

\* node->confirmationConfidence(), called while no transaction is added or
\* removed.
Confidence(node) ==
    /\ started = <<>>
    /\ node \in 1..created
    /\ \E value \in confirmationConfidence(Tangle, node) :
            result' = [call |-> "confirmationConfidence", outcome |-> "ok",
                       node |-> node, value |-> value]
    /\ UNCHANGED <<tangleVars, threadVars, netVars, diskVars, weightVars,
                   voteVars>>

\* Transactions are added on any parents, the weight threads run, and the
\* confidence of a node is asked for in between.
NextConfidence ==
    \/ \E ps \in ParentLists(created) :
            ps # <<>> /\ AddNew(ps, <<>>, <<>>, "none")
    \/ \E source \in Nodes : RunWeightTask(source)
    \/ \E node \in Nodes : Confidence(node)

SpecConfidence == Init /\ [][NextConfidence]_vars

\* ------------------------------------------- weight threads side by side

\* The transactions of such a run and the weight threads running at once.
WeighNodes == 4
MaxWeighers == 2

\* A detached weight thread begins (tangle.cpp:477-480): its queue holds
\* the source (tangle.cpp:590-591).  No lock keeps another one from
\* running beside it.
BeginWeighing(source) ==
    /\ started = <<>>
    /\ Len(weighing) < MaxWeighers
    /\ weightTasks[source] > 0
    /\ LET from == IF source = GenesisTask THEN genesis ELSE source
       IN weighing' = Append(weighing,
                             [queue |-> <<from>>, pc |-> "read", sum |-> 0])
    /\ weightTasks' = [weightTasks EXCEPT ![source] = @ - 1]
    /\ result' = [call |-> "updateCumulativeWeights", outcome |-> "begin",
                  node |-> NoNode]
    /\ UNCHANGED <<genesis, isGenesis, trx, parents, children, tips,
                   cumulativeWeight, genesisCandidates, updateWeights,
                   created, threadVars, netVars, diskVars, weightQueue,
                   voteVars>>

\* The nodes whose child list a weight thread holds a read lock on.
ReadLocked ==
    {Head(weighing[k].queue) :
        k \in {w \in 1..Len(weighing) : weighing[w].pc = "locked"}}

\* The thread takes a read lock on the child list of the head of its queue
\* (head->children.read_lock(), tangle.cpp:601-602).
WeigherLocks(k) ==
    /\ started = <<>>
    /\ k \in 1..Len(weighing)
    /\ weighing[k].pc = "read"
    /\ weighing' = [weighing EXCEPT ![k].pc = "locked"]
    /\ result' = [call |-> "updateCumulativeWeights", outcome |-> "lock",
                  node |-> Head(weighing[k].queue)]
    /\ UNCHANGED <<tangleVars, threadVars, netVars, diskVars, weightQueue,
                   voteVars>>

\* The thread sums the own weight of the head of its queue and the weights
\* it reads from the children of the head (tangle.cpp:594-602), and lets
\* go of the read lock.
WeigherReads(k) ==
    /\ started = <<>>
    /\ k \in 1..Len(weighing)
    /\ weighing[k].pc \in {"read", "locked"}
    /\ LET head == Head(weighing[k].queue)
       IN /\ weighing' = [weighing EXCEPT
                            ![k].pc = "write",
                            ![k].sum = ownWeight(trx[head])
                                         + SumWeights(Tangle, children[head])]
          /\ result' = [call |-> "updateCumulativeWeights",
                        outcome |-> "read", node |-> head]
    /\ UNCHANGED <<tangleVars, threadVars, netVars, diskVars, weightQueue,
                   voteVars>>

\* The thread writes the sum to the head and queues the parents of the head
\* (tangle.cpp:603-608); with an empty queue it ends.
WeigherWrites(k) ==
    /\ started = <<>>
    /\ k \in 1..Len(weighing)
    /\ weighing[k].pc = "write"
    /\ LET head == Head(weighing[k].queue)
           queue == Tail(weighing[k].queue) \o parents[head]
       IN /\ cumulativeWeight' =
                [cumulativeWeight EXCEPT ![head] = weighing[k].sum]
          /\ weighing' =
                IF queue = <<>>
                THEN SubSeq(weighing, 1, k - 1)
                       \o SubSeq(weighing, k + 1, Len(weighing))
                ELSE [weighing EXCEPT ![k].queue = queue, ![k].pc = "read",
                                      ![k].sum = 0]
          /\ result' = [call |-> "updateCumulativeWeights",
                        outcome |-> "write", node |-> head]
    /\ UNCHANGED <<genesis, isGenesis, trx, parents, children, tips,
                   genesisCandidates, updateWeights, weightTasks, created,
                   threadVars, netVars, diskVars, weightQueue, voteVars>>

\* Transactions without transfers are added and the weight threads the
\* additions start run side by side, a read or a write at a time.
NextWeighers ==
    \/ \E ps \in ParentLists(created) :
            created < WeighNodes /\ ps # <<>>
            /\ AddNew(ps, <<>>, <<>>, "none")
    \/ \E source \in Nodes : BeginWeighing(source)
    \/ \E k \in 1..MaxWeighers : WeigherReads(k)
    \/ \E k \in 1..MaxWeighers : WeigherWrites(k)

SpecWeighers == Init /\ [][NextWeighers]_vars

\* ------------------------------------- transactions sent to synchronize

\* A SynchronizationAddTransactionRequest for the k-th remote transaction
\* is handled (networking.hpp:662-666).
DeliverSync(k, peer, defect) ==
    /\ started = <<>>
    /\ k \in 1..Len(wire)
    /\ handled[k] < MaxCopies
    /\ created + Len(networkAdditionQueue) < MaxNodes
    /\ LET after == SynchronizationAddListener(Peer, Request(k, peer, defect))
           valid == defect = "none" /\ peer \in peerKeys
       IN /\ InstallPeer(after)
          /\ handled' = IF valid THEN [handled EXCEPT ![k] = @ + 1]
                         ELSE handled
          /\ result' = [call |-> "SynchronizationAddTransactionRequest",
                        outcome |-> IF defect = "hash" THEN "InvalidHash"
                                    ELSE "ok",
                        wire |-> k, valid |-> valid,
                        added |-> after.t.created - created,
                        peerID |-> peer, signed |-> defect # "signature",
                        sent |-> after.sent]
    /\ UNCHANGED <<threadVars, wire, diskVars, weightVars, voteVars>>

\* A peer whose key is known sends the transactions it made to synchronize,
\* and transactions are added here as well.
NextSyncAdd ==
    \/ \E peer \in Peers, verified \in BOOLEAN : ReceiveKey(peer, verified)
    \/ \E hashes \in SUBSET KnownHashes : RemoteCreates(hashes)
    \/ \E k \in 1..MaxWire, peer \in Peers, defect \in RequestDefects :
            peer \in peerKeys /\ DeliverSync(k, peer, defect)
    \/ \E ps \in ParentLists(created) :
            created + Len(networkAdditionQueue) + 1 < MaxNodes /\ Len(ps) = 1
            /\ AddNew(ps, <<>>, <<>>, "none")

SpecSyncAdd == Init /\ [][NextSyncAdd]_vars

\* ---------------------------------------------------- sending the tangle

\* Node objects of a tangle that is sent.
StreamNodes == 4

\* The links of the tangle: the genesis pointer, the parent lists, the
\* child lists and the tip list.
Structure ==
    [genesis |-> genesis, parents |-> parents, children |-> children,
     tips |-> tips]

\* The message recursiveSendTangle sends for a node (networking.hpp:507-508).
TangleMessage(node, requester) ==
    [type |-> IF node \in isGenesis THEN "SyncGenesisRequest"
              ELSE "SynchronizationAddTransactionRequest",
     to |-> requester, node |-> node]

\* TangleSynchronizeRequest::listener takes the mutex of the tangle and
\* enters recursiveSendTangle with the genesis, which sends the message for
\* it (networking.hpp:495-498, 507-508).
StreamBegins(requester) ==
    /\ started = <<>>
    /\ streaming = <<>>
    /\ streaming' = [requester |-> requester,
                     frames |-> <<[node |-> genesis, i |-> 1]>>,
                     sent |-> <<TangleMessage(genesis, requester)>>,
                     began |-> Structure, flagged |-> isGenesis]
    /\ result' = [call |-> "TangleSynchronizeRequest", outcome |-> "begin",
                  requester |-> requester, sent |-> <<>>]
    /\ UNCHANGED <<tangleVars, threads, started, pruning, netVars, diskVars,
                   weightVars, voteVars>>

\* One turn of the loop of recursiveSendTangle in the innermost call
\* (networking.hpp:510-511): the call for the next child begins and sends
\* the message for the child, or the loop is over and the call returns.
\* The calls hold references to entries of the child lists.
StreamStep ==
    /\ started = <<>>
    /\ streaming # <<>>
    /\ streaming.frames # <<>>
    /\ streaming.began = Structure
    /\ LET top == Head(streaming.frames)
           kids == children[top.node]
       IN streaming' =
            IF top.i > Len(kids)
            THEN [streaming EXCEPT !.frames = Tail(@)]
            ELSE [streaming EXCEPT
                    !.frames = <<[node |-> kids[top.i], i |-> 1],
                                 [top EXCEPT !.i = @ + 1]>> \o Tail(@),
                    !.sent = Append(@, TangleMessage(kids[top.i],
                                                     streaming.requester))]
    /\ result' = [call |-> "TangleSynchronizeRequest", outcome |-> "send",
                  requester |-> streaming.requester, sent |-> <<>>]
    /\ UNCHANGED <<tangleVars, threads, started, pruning, netVars, diskVars,
                   weightVars, voteVars>>

\* The handler sends the UpdateWeightsRequest and returns, which releases
\* the mutex (networking.hpp:501-504).  When the lists were changed under
\* the calls that were running, their references are dangling.
StreamEnds ==
    /\ started = <<>>
    /\ streaming # <<>>
    /\ \/ /\ streaming.frames = <<>>
          /\ result' = [call |-> "TangleSynchronizeRequest",
                        outcome |-> "ok",
                        requester |-> streaming.requester,
                        sent |-> Append(streaming.sent,
                                        [type |-> "UpdateWeightsRequest",
                                         to |-> streaming.requester,
                                         node |-> NoNode])]
       \/ /\ streaming.frames # <<>>
          /\ streaming.began # Structure
          /\ result' = [call |-> "TangleSynchronizeRequest",
                        outcome |-> "undefined",
                        requester |-> streaming.requester,
                        sent |-> streaming.sent]
    /\ streaming' = <<>>
    /\ UNCHANGED <<tangleVars, threads, started, pruning, netVars, diskVars,
                   weightVars, voteVars>>

\* NetworkedTangle::prune up to its call of setGenesis
\* (networking_tangle.cpp:236-281), with the candidate at place c chosen.
pruneUntilSetGenesis(st, c) ==
    LET made == createLatestCommonGenesis(st, c)
        node == made.node
        cleared == [made.st EXCEPT !.tips = <<>>]
        first == find(cleared, cleared.trx[node].hash)
        taken == IF first = NoNode
                 THEN [st |-> cleared, children |-> <<>>,
                       outcome |-> "undefined"]
                 ELSE TakeAliasChildren(
                        TakeChildren([st |-> cleared, children |-> <<>>],
                                     first),
                        cleared.trx[node].parentHashes)
        kids == removeDuplicates(taken.children, {})
        moved == [taken.st EXCEPT !.children[node] = kids,
                                  !.tips = removeDuplicates(@, {})]
    IN IF made.outcome # "ok"
       THEN [st |-> st, outcome |-> made.outcome, node |-> node,
             originalTips |-> st.tips]
       ELSE IF taken.outcome # "ok"
       THEN [st |-> st, outcome |-> taken.outcome, node |-> node,
             originalTips |-> st.tips]
       ELSE [st |-> PointToGenesis(moved, kids, node), outcome |-> "ok",
             node |-> node, originalTips |-> made.st.tips]

\* The main thread calls prune (main.cpp:285) and runs it up to setGenesis.
\* prune takes no mutex.
PruneSituates ==
    /\ started = <<>>
    /\ pruning = <<>>
    /\ Returned
    /\ created < MaxNodes
    /\ \E c \in ChosenCandidates(Tangle) :
        \E r \in {pruneUntilSetGenesis(Tangle, c)} :
           /\ Install(r.st)
           /\ pruning' = IF r.outcome = "ok"
                         THEN [node |-> r.node,
                               originalTips |-> r.originalTips]
                         ELSE <<>>
           /\ result' = [call |-> "prune",
                         outcome |-> IF r.outcome = "ok" THEN "situated"
                                     ELSE r.outcome,
                         chosen |-> IF c = 0 THEN <<>>
                                    ELSE genesisCandidates[c],
                         node |-> r.node]
    /\ UNCHANGED <<threads, started, streaming, netVars, diskVars,
                   weightVars, voteVars>>

\* The rest of prune (networking_tangle.cpp:285-288): setGenesis, then the
\* tips are put back.  setGenesis waits for the mutex in removeTip
\* (tangle.cpp:510) when the old genesis has a child and there is a tip.
PruneSetsGenesis ==
    /\ started = <<>>
    /\ pruning # <<>>
    /\ streaming = <<>> \/ children[genesis] = <<>> \/ tips = <<>>
    /\ \E set \in {TangleSetGenesis(Tangle, pruning.node)} :
          /\ IF set.outcome = "ok"
             THEN Install([set.st EXCEPT !.tips = pruning.originalTips])
             ELSE Install(set.st)
          /\ result' = [call |-> "prune", outcome |-> set.outcome,
                        chosen |-> <<>>, node |-> pruning.node]
    /\ pruning' = <<>>
    /\ UNCHANGED <<threads, started, streaming, netVars, diskVars,
                   weightVars, voteVars>>

\* The requesters of the tangle.
Requesters == {"p", "q"}

\* The main thread sets the genesis of a new network (main.cpp:157), adds
\* transactions and prunes, a call at a time, while the network thread
\* handles TangleSynchronizeRequests; add waits for the mutex the handler
\* holds (tangle.cpp:462).
NextStream ==
    \/ \E outs \in SupplyLists :
            /\ Returned
            /\ streaming = <<>>
            /\ pruning = <<>>
            /\ created = 1
            /\ SetGenesis(outs)
    \/ \E ps \in ParentLists(created) :
            /\ Returned
            /\ streaming = <<>>
            /\ pruning = <<>>
            /\ created < StreamNodes
            /\ ps # <<>>
            /\ AddNew(ps, <<>>, <<>>, "none")
    \/ \E source \in {GenesisTask} \cup Nodes :
            Returned /\ streaming = <<>> /\ pruning = <<>>
            /\ RunWeightTask(source)
    \/ \E requester \in Requesters : StreamBegins(requester)
    \/ StreamStep
    \/ StreamEnds
    \/ weightTasks[GenesisTask] = 0 /\ PruneSituates
    \/ PruneSetsGenesis

SpecStream == Init /\ [][NextStream]_vars

\* ------------------------------------------------- readers and writers

\* Transactions are added and tips are removed while a weight thread
\* of the additions reads the child lists under read locks.  add changes
\* the child list of a parent under its write lock (tangle.cpp:468-474),
\* which waits for the readers of the list; removeTip and the setGenesis
\* that calls it take no lock of a list (tangle.cpp:514-523).
NextLocks ==
    \/ \E ps \in ParentLists(created) :
            /\ created < WeighNodes
            /\ ps # <<>>
            /\ Range(ps) \cap ReadLocked = {}
            /\ AddNew(ps, <<>>, <<>>, "none")
    \/ \E node \in Nodes : RemoveTip(node)
    \/ created < WeighNodes /\ SetGenesis(<<>>)
    \/ \E source \in {GenesisTask} \cup Nodes :
            weighing = <<>> /\ BeginWeighing(source)
    \/ \E k \in 1..MaxWeighers : WeigherLocks(k)
    \/ \E k \in 1..MaxWeighers : WeigherReads(k)
    \/ \E k \in 1..MaxWeighers : WeigherWrites(k)

SpecLocks == Init /\ [][NextLocks]_vars

\* --------------------------------------------------- removeTip beside add

\* Node objects of a tangle a tip is removed from.
RemoveNodes == 4

\* The checks of removeTip, made before its critical region with no lock
\* of the tangle held (tangle.cpp:499-507).
RemoveTipOutcome(st, tip) ==
    IF find(st, st.trx[tip].hash) = NoNode THEN "NodeNotFound"
    ELSE IF st.children[tip] # <<>> THEN "NotATip"
    ELSE "ok"

\* The critical region of removeTip (tangle.cpp:509-527).
RemoveTipRegion(st, tip) ==
    [DetachFromParents(st, tip, st.parents[tip]) EXCEPT
        !.tips = Erase(@, tip),
        !.parents[tip] = <<>>]

\* Two threads begin at the same time: the first calls removeTip for a
\* node, the second calls add with a new node.
StartRemoveAndAdd(tip, ps) ==
    /\ started = <<>>
    /\ tip \in 1..created
    /\ created < RemoveNodes
    /\ LET node == created + 1
           made == MakeNode(Tangle, node, ps, <<>>, <<>>, "none")
       IN /\ Install(made)
          /\ started' = <<made>>
          /\ threads' = [t \in Threads |->
                            IF t = 1
                            THEN [pc |-> "removing", node |-> tip,
                                  outcome |-> "none"]
                            ELSE [pc |-> "checking", node |-> node,
                                  outcome |-> "none"]]
    /\ result' = [call |-> "thread", outcome |-> "ok", node |-> tip]
    /\ UNCHANGED <<netVars, diskVars, weightVars, voteVars, streaming,
                   pruning>>

\* A thread runs removeTip up to the critical region.
RemoveChecks(t) ==
    /\ threads[t].pc = "removing"
    /\ LET outcome == RemoveTipOutcome(Tangle, threads[t].node)
       IN /\ threads' = [threads EXCEPT
                           ![t].pc = IF outcome = "ok" THEN "detaching"
                                     ELSE "done",
                           ![t].outcome = outcome]
          /\ result' = [call |-> "removeTip",
                        outcome |-> IF outcome = "ok" THEN "checked"
                                    ELSE outcome,
                        node |-> threads[t].node]
    /\ UNCHANGED <<tangleVars, started, netVars, diskVars, weightVars,
                   voteVars, streaming, pruning>>

\* A thread runs the critical region of removeTip under the mutex and
\* returns.
RemoveDetaches(t) ==
    /\ threads[t].pc = "detaching"
    /\ Install(RemoveTipRegion(Tangle, threads[t].node))
    /\ threads' = [threads EXCEPT ![t].pc = "done"]
    /\ result' = [call |-> "removeTip", outcome |-> "ok",
                  node |-> threads[t].node]
    /\ UNCHANGED <<started, netVars, diskVars, weightVars, voteVars,
                   streaming, pruning>>

\* Every parent of the node is found under its hash.
ParentsFound(st, node) ==
    \A i \in 1..Len(st.parents[node]) :
        find(st, st.trx[st.parents[node][i]].hash) # NoNode

\* A thread enters the critical region of add when a parent it has checked
\* is in the tangle no more: find returns a null pointer, which is
\* dereferenced (tangle.cpp:472).
ThreadFaults(t) ==
    /\ threads[t].pc = "checked"
    /\ ~ParentsFound(Tangle, threads[t].node)
    /\ threads' = [threads EXCEPT ![t].pc = "done",
                                  ![t].outcome = "undefined"]
    /\ result' = [call |-> "add", outcome |-> "undefined",
                  node |-> threads[t].node]
    /\ UNCHANGED <<tangleVars, started, netVars, diskVars, weightVars,
                   voteVars, streaming, pruning>>

\* A tangle is built, then a tip is removed by one thread while another
\* adds a transaction.
NextRemove ==
    \/ \E ps \in ParentLists(created) :
            created + 1 < RemoveNodes /\ ps # <<>>
            /\ AddNew(ps, <<>>, <<>>, "none")
    \/ \E tip \in Nodes, ps \in ParentLists(created) :
            ps # <<>> /\ StartRemoveAndAdd(tip, ps)
    \/ \E t \in Threads : RemoveChecks(t)
    \/ \E t \in Threads : RemoveDetaches(t)
    \/ \E t \in Threads : ThreadChecks(t)
    \/ \E t \in Threads :
            /\ threads[t].pc = "checked"
            /\ ParentsFound(Tangle, threads[t].node)
            /\ ThreadCommits(t)
    \/ \E t \in Threads : ThreadFaults(t)

SpecRemove == Init /\ [][NextRemove]_vars

\* ------------------------------------------------ peers that disconnect

\* The peers that send transactions; the second of them may leave.
Senders == {"p", "q"}

\* Transactions made elsewhere for such a run.
LeaveWire == 2

\* Transactions made elsewhere arrive from peers that are connected, with
\* or without a known key, and a peer leaves the network while
\* transactions of its own are held in the queue.
NextLeave ==
    \/ \E peer \in Senders :
            peer \in connected /\ peer \notin peerKeys
            /\ ReceiveKey(peer, TRUE)
    \/ \E hashes \in SUBSET KnownHashes :
            Len(wire) < LeaveWire /\ RemoteCreates(hashes)
    \/ \E k \in 1..LeaveWire, peer \in Senders :
            /\ k <= Len(wire)
            /\ peer \in connected
            /\ created + Len(networkAdditionQueue) < MaxNodes
            /\ peer \in peerKeys \/ ~Queued(networkAdditionQueue, wire[k].hash)
            /\ Deliver(k, peer, "none")
    \/ Disconnect("q")

SpecLeave == Init /\ [][NextLeave]_vars

\* ------------------------------------------------------ exchange of keys

\* Messages of a kind on their way to one process; what is sent beyond is
\* lost.
MaxMail == 2

\* This process and the remote peer it exchanges keys with, each running
\* the same listeners.
KeyParties == {Self, "p"}

TheOther(party) == IF party = Self THEN "p" ELSE Self

\* The value of lastSent before a key was sent (networking_tangle.cpp:365).
NoPeer == "nobody"

\* network.send_object_to(to, message) of a key message.
Post(mail, to, kind) ==
    [mail EXCEPT ![to][kind] = IF @ < MaxMail THEN @ + 1 ELSE @]

\* The peers whose key a party knows.
KnownTo(party) == IF party = Self THEN peerKeys ELSE remoteKeys

\* This process asks the remote peer for its key, as it does when it
\* handles a message of a peer whose key it lacks
\* (networking_tangle.cpp:418, 493, 556).
AskKey ==
    /\ started = <<>>
    /\ "p" \notin peerKeys
    /\ keyMail["p"].request < MaxMail
    /\ keyMail' = Post(keyMail, "p", "request")
    /\ result' = [call |-> "PublicKeySyncRequest", outcome |-> "sent",
                  at |-> Self]
    /\ UNCHANGED <<tangleVars, threadVars, netVars, diskVars, weightVars,
                   genesisVotes, connected, lastSent, remoteKeys, entryVars>>

\* PublicKeySyncRequest::listener at a party whose key pair is set, for a
\* request of the other party (networking_tangle.cpp:373-391).
DeliverKeyRequest(at) ==
    /\ started = <<>>
    /\ keyMail[at].request > 0
    /\ LET source == TheOther(at)
           taken == [keyMail EXCEPT ![at].request = @ - 1]
           answered == IF lastSent[at] # source
                       THEN Post(taken, source, "response")
                       ELSE taken
       IN /\ keyMail' = IF source \notin KnownTo(at)
                        THEN Post(answered, source, "request")
                        ELSE answered
          /\ lastSent' = [lastSent EXCEPT ![at] = source]
          /\ result' = [call |-> "PublicKeySyncRequest",
                        outcome |-> IF lastSent[at] # source THEN "answered"
                                    ELSE "ignored",
                        at |-> at]
    /\ UNCHANGED <<tangleVars, threadVars, netVars, diskVars, weightVars,
                   genesisVotes, connected, remoteKeys, entryVars>>

\* PublicKeySyncResponse::listener at a party, for the response of the
\* other party, whose signature verifies (networking.hpp:454-460).
DeliverKeyResponse(at) ==
    /\ started = <<>>
    /\ keyMail[at].response > 0
    /\ keyMail' = [keyMail EXCEPT ![at].response = @ - 1]
    /\ IF at = Self
       THEN /\ peerKeys' = peerKeys \cup {"p"}
            /\ UNCHANGED remoteKeys
       ELSE /\ remoteKeys' = remoteKeys \cup {"p"}
            /\ UNCHANGED peerKeys
    /\ result' = [call |-> "PublicKeySyncResponse", outcome |-> "ok",
                  at |-> at]
    /\ UNCHANGED <<tangleVars, threadVars, wire, networkAdditionQueue,
                   queueCapacity, handled, genesisSyncExpectedHash,
                   diskVars, weightVars, genesisVotes, connected, lastSent,
                   entryVars>>

\* The network loses a key message.
LoseKeyMessage(to, kind) ==
    /\ started = <<>>
    /\ keyMail[to][kind] > 0
    /\ keyMail' = [keyMail EXCEPT ![to][kind] = @ - 1]
    /\ result' = [call |-> "lost", outcome |-> kind, at |-> to]
    /\ UNCHANGED <<tangleVars, threadVars, netVars, diskVars, weightVars,
                   genesisVotes, connected, lastSent, remoteKeys, entryVars>>

\* The remote peer handles the PublicKeySyncRequest of a third peer: that
\* one is the last it sent its key to.
ServeOther ==
    /\ started = <<>>
    /\ lastSent["p"] # "q"
    /\ lastSent' = [lastSent EXCEPT !["p"] = "q"]
    /\ result' = [call |-> "PublicKeySyncRequest", outcome |-> "answered",
                  at |-> "q"]
    /\ UNCHANGED <<tangleVars, threadVars, netVars, diskVars, weightVars,
                   genesisVotes, connected, keyMail, remoteKeys, entryVars>>

\* Keys are asked for and sent, and messages are lost.
NextKeys ==
    \/ AskKey
    \/ \E at \in KeyParties : DeliverKeyRequest(at)
    \/ \E at \in KeyParties : DeliverKeyResponse(at)
    \/ \E to \in KeyParties, kind \in {"request", "response"} :
            LoseKeyMessage(to, kind)
    \/ ServeOther

SpecKeys == Init /\ [][NextKeys]_vars

\* This process keeps asking while it lacks the key, and a message that
\* is sent again and again is delivered in the end.
SpecKeysFair ==
    /\ SpecKeys
    /\ WF_vars(AskKey)
    /\ \A at \in KeyParties : SF_vars(DeliverKeyRequest(at))
    /\ \A at \in KeyParties : SF_vars(DeliverKeyResponse(at))

\* ---------------------------------------------------- entries of peerKeys

\* The peers that send their key to the process that created the network.
KeySenders == {"p", "q"}

\* A PublicKeySyncResponse of a peer is handled by the process that created
\* the network: PublicKeySyncResponse::listener keeps the key when the
\* signature verifies (networking.hpp:454-460), then the listener added at
\* main.cpp:160-176 starts the thread that pays the peer.
KeyResponse(peer, verified) ==
    /\ started = <<>>
    /\ peerKeys' = IF verified THEN peerKeys \cup {peer} ELSE peerKeys
    /\ blankKeys' = IF verified THEN blankKeys \ {peer} ELSE blankKeys
    /\ granting' = granting \cup {peer}
    /\ result' = [call |-> "PublicKeySyncResponse",
                  outcome |-> IF verified THEN "ok" ELSE "unverified"]
    /\ UNCHANGED <<tangleVars, threadVars, wire, networkAdditionQueue,
                   queueCapacity, handled, genesisSyncExpectedHash,
                   diskVars, weightVars, genesisVotes, connected, lastSent,
                   keyMail, remoteKeys>>

\* The thread started for a peer reads t.peerKeys[source.id()]
\* (main.cpp:165): operator[] of the map makes an entry with a
\* default-constructed key when the peer has none.
GrantLooksUp(peer) ==
    /\ started = <<>>
    /\ peer \in granting
    /\ granting' = granting \ {peer}
    /\ peerKeys' = peerKeys \cup {peer}
    /\ blankKeys' = IF peer \in peerKeys THEN blankKeys
                    ELSE blankKeys \cup {peer}
    /\ result' = [call |-> "peerKeys[]",
                  outcome |-> IF peer \in peerKeys THEN "found"
                              ELSE "inserted"]
    /\ UNCHANGED <<tangleVars, threadVars, wire, networkAdditionQueue,
                   queueCapacity, handled, genesisSyncExpectedHash,
                   diskVars, weightVars, genesisVotes, connected, lastSent,
                   keyMail, remoteKeys>>

\* Keys arrive, verified or not, the threads look the peers up, and a
\* thread that found a key adds the transaction that pays the peer
\* (main.cpp:168-172).
NextEntries ==
    \/ \E peer \in KeySenders, verified \in BOOLEAN :
            KeyResponse(peer, verified)
    \/ \E peer \in KeySenders : GrantLooksUp(peer)
    \/ \E ps \in ParentLists(created) :
            /\ peerKeys \ blankKeys # {}
            /\ Len(ps) = 1
            /\ AddNew(ps, <<>>, <<>>, "none")

SpecEntries == Init /\ [][NextEntries]_vars

\* ------------------------------------------------------ counting the walks

\* The nodes of the largest walk set that is counted.
MaxWalkSet == 256

\* The sizes of the walk sets that are counted: lists of 128, 192, 100 and
\* MaxWalkSet entries.
WalkSetSizes == {1, 3, 100, MaxWalkSet}

\* The values of the uint8_t that counts the walks (tangle.cpp:361).
Uint8Values == 256

\* The end of confirmationConfidence for a walk list of the given length of
\* which so many walks end at a tip under the node: the counter is
\* incremented once per such walk, and the value returned is the counter
\* over the length (tangle.cpp:361-368), kept as the two numbers.
CountedConfidence(length, hits) ==
    LET confidence == hits % Uint8Values
    IN [confidence |-> confidence, size |-> length]

\* confirmationConfidence of a node whose walk set has so many nodes:
\* the walk list is the set merged with itself up to 100 entries
\* (tangle.cpp:354-357), and any number of its walks end under the node.
CountWalks(setSize, hits) ==
    /\ started = <<>>
    /\ LET length == WalkListSize(setSize)
       IN /\ hits \in 0..length
          /\ result' = [call |-> "countWalks", outcome |-> "ok",
                        length |-> length, hits |-> hits,
                        value |-> CountedConfidence(length, hits)]
    /\ UNCHANGED <<tangleVars, threadVars, netVars, diskVars, weightVars,
                   voteVars>>

NextCount ==
    \E setSize \in WalkSetSizes, hits \in 0..MaxWalkSet :
        CountWalks(setSize, hits)

SpecCount == Init /\ [][NextCount]_vars

\* ---------------------------------------------------------- mined hashes

\* The characters of the hashes that are compared.
HashLen == 2

\* Characters of the base-64 alphabet, of each kind the code tells apart,
\* and one that is not of the alphabet, with their codes.
Base64Chars == {"A", "B", "a", "0", "+", "/"}

OtherChars == {"="}

Code ==
    ("A" :> 65) @@ ("B" :> 66) @@ ("a" :> 97) @@ ("0" :> 48) @@ ("+" :> 43)
        @@ ("/" :> 47) @@ ("=" :> 61)

isdigit(c) == Code[c] \in 48..57

islower(c) == Code[c] \in 97..122

isalnum(c) == isdigit(c) \/ islower(c) \/ Code[c] \in 65..90

\* A character of the base-64 alphabet, as base64CharCompare tests it
\* (utility.hpp:211-214).
IsBase64(c) == isalnum(c) \/ c = "+" \/ c = "/"

\* The lambda base64CharCompare of util::base64Compare for two characters
\* of the alphabet (utility.hpp:216-244): 1, 0 or -1.
base64CharCompare(a, b) ==
    IF a = b THEN 0
    ELSE IF a = "/" THEN 1
    ELSE IF b = "/" THEN -1
    ELSE IF a = "+" THEN 1
    ELSE IF b = "+" THEN -1
    ELSE IF isdigit(a) /\ isdigit(b) /\ Code[a] > Code[b] THEN 1
    ELSE IF isdigit(a) /\ isdigit(b) /\ Code[b] > Code[a] THEN -1
    ELSE IF isdigit(a) THEN 1
    ELSE IF isdigit(b) THEN -1
    ELSE IF islower(a) /\ islower(b) /\ Code[a] > Code[b] THEN 1
    ELSE IF islower(a) /\ islower(b) /\ Code[b] > Code[a] THEN -1
    ELSE IF islower(a) THEN 1
    ELSE IF islower(b) THEN -1
    ELSE IF Code[a] > Code[b] THEN 1
    ELSE -1

\* The loop of util::base64Compare from the i-th character on
\* (utility.hpp:252-257): the set of the value returned, empty when a
\* character that is not of the alphabet makes the lambda throw.
RECURSIVE CompareFrom(_, _, _)
CompareFrom(a, b, i) ==
    IF i > Len(a) THEN {0}
    ELSE IF ~IsBase64(a[i]) \/ ~IsBase64(b[i]) THEN {}
    ELSE LET compare == base64CharCompare(a[i], b[i])
         IN IF compare # 0 THEN {compare} ELSE CompareFrom(a, b, i + 1)

\* util::base64Compare (utility.hpp:207-258).
base64Compare(a, b) ==
    IF Len(a) > Len(b) THEN {1}
    ELSE IF Len(b) > Len(a) THEN {-1}
    ELSE CompareFrom(a, b, 1)

\* Transaction::validateTransactionMined for a hash, a difficulty and a
\* target character (transaction.cpp:127-136): the hash is compared with
\* the target character repeated and filled up with '/'.
ValidateMined(hash, miningDifficulty, miningTarget) ==
    IF miningDifficulty > Len(hash) THEN "false"
    ELSE LET targetHash == [i \in 1..Len(hash) |->
                               IF i <= miningDifficulty THEN miningTarget
                               ELSE "/"]
             compare == base64Compare(hash, targetHash)
         IN IF compare = {} THEN "throws"
            ELSE IF \E c \in compare : c <= 0 THEN "true"
            ELSE "false"

\* validateTransactionMined is called on a transaction that arrived: the
\* sender chose its difficulty and its target character
\* (transaction.hpp:276-277, 298).
ValidateArrived(hash, miningDifficulty, miningTarget) ==
    /\ started = <<>>
    /\ result' = [call |-> "validateTransactionMined", outcome |-> "ok",
                  hash |-> hash, miningDifficulty |-> miningDifficulty,
                  miningTarget |-> miningTarget,
                  value |-> ValidateMined(hash, miningDifficulty,
                                          miningTarget)]
    /\ UNCHANGED <<tangleVars, threadVars, netVars, diskVars, weightVars,
                   voteVars>>

NextMined ==
    \E hash \in [1..HashLen -> Base64Chars],
       miningDifficulty \in 0..(HashLen + 1),
       miningTarget \in Base64Chars \cup OtherChars :
        ValidateArrived(hash, miningDifficulty, miningTarget)

SpecMined == Init /\ [][NextMined]_vars

\* ------------------------------------------------------- left-behind tips

\* The height of the highest tip of such a tangle.
MaxHeight == 6

\* How far under the average height of the chosen parents a tip is left
\* behind (the constant is used at tangle.cpp:89).
LEFT_BEHIND_TIP_THRESHOLD == 5

\* The heights the tips have, and the tip lists: the genesis alone, of
\* height 0, or up to three tips, of which the walks choose two.
TipHeights == {1, 2, MaxHeight - 1, MaxHeight}

TipLists == {<<0>>} \cup UNION {[1..n -> TipHeights] : n \in 1..3}

\* height <= avgHeight - threshold as tangle.cpp:89 computes it: the
\* operands are size_t, and the difference of a smaller and a larger one
\* wraps around to a value above every height.
AtMostDifference(height, avgHeight, threshold) ==
    IF avgHeight >= threshold THEN height <= avgHeight - threshold
    ELSE TRUE

\* The loop of createAndMine over the tips (tangle.cpp:88-92): the place of
\* the first tip that qualifies as left behind, 0 when there is none.
LeftBehindTip(heights, avgHeight) ==
    LET qualified == {i \in 1..Len(heights) :
                        AtMostDifference(heights[i], avgHeight,
                                         LEFT_BEHIND_TIP_THRESHOLD)}
    IN IF qualified = {} THEN 0
       ELSE CHOOSE i \in qualified : \A j \in qualified : i <= j

\* The parents createAndMine gives a transaction when the walks end at the
\* tips front and back of a tip list with these heights (tangle.cpp:69-96),
\* as places in the tip list, each once.
MinedParents(heights, front, back) ==
    LET avgHeight == (heights[front] + heights[back]) \div 2
        extra == LeftBehindTip(heights, avgHeight)
        chosen == IF front = back THEN <<front>> ELSE <<front, back>>
    IN [avgHeight |-> avgHeight,
        parents |-> IF extra = 0 \/ extra \in {front, back} THEN chosen
                    ELSE Append(chosen, extra)]

\* createAndMine on a tangle whose tips have the given heights; the walks
\* end at two different tips unless there is one tip only or 256 walks
\* ended at the same one (tangle.cpp:74-76).
CreateAndMine(heights, front, back) ==
    /\ started = <<>>
    /\ front \in 1..Len(heights)
    /\ back \in 1..Len(heights)
    /\ result' = [call |-> "createAndMine", outcome |-> "ok",
                  heights |-> heights, front |-> front, back |-> back,
                  value |-> MinedParents(heights, front, back)]
    /\ UNCHANGED <<tangleVars, threadVars, netVars, diskVars, weightVars,
                   voteVars>>

NextMine ==
    \E heights \in TipLists, front \in 1..3, back \in 1..3 :
        CreateAndMine(heights, front, back)

SpecMine == Init /\ [][NextMine]_vars

\* --------------------------------------------------- one peer votes again

\* The keys of the peers arrive and a vote is held in which one peer alone
\* answers, as often as the network delivers its GenesisVoteResponse.
NextRevote ==
    \/ \E peer \in Voters : peer \notin peerKeys /\ ReceiveKey(peer, TRUE)
    \/ StartVote
    \/ \E hashes \in Ballots, signed \in BOOLEAN :
            DeliverVote("p", hashes, signed)

SpecRevote == Init /\ [][NextRevote]_vars

\* ------------------------------------------------- setGenesis beside add

\* Node objects of a tangle whose genesis is replaced.
SwapNodes == 4

\* The locks a thread holds follow from where it stands.  The thread in
\* setGenesis holds a read lock on the child list of the old genesis from
\* the outer loop on (tangle.cpp:386) and a read lock on the tip list
\* inside the inner loop (387), the removeTip it calls there included.
HoldsGenesisChildren(t) == threads[t].pc \in {"outer", "inner", "detaching"}

HoldsTipsRead(t) == threads[t].pc \in {"inner", "detaching"}

\* The thread in the critical region of add holds the mutex
\* (tangle.cpp:462), and the write lock of the tip list inside the loop
\* over the parents (468).
HoldsMutex(t) == threads[t].pc \in {"locked", "writing"}

HoldsTipsWrite(t) == threads[t].pc = "writing"

\* Two threads begin at the same time: the first calls setGenesis with a
\* new genesis, the second calls add with a new node.
StartSetAndAdd(ps) ==
    /\ started = <<>>
    /\ created + 2 <= SwapNodes
    /\ LET new == created + 1
           node == created + 2
           one == MakeNode(Tangle, new, <<>>, <<>>, <<>>, "none")
           both == MakeNode(one, node, ps, <<>>, <<>>, "none")
       IN /\ Install(both)
          /\ started' = <<both>>
          /\ threads' = [t \in Threads |->
                            IF t = 1
                            THEN [pc |-> "setting", node |-> new,
                                  outcome |-> "none", at |-> 0]
                            ELSE [pc |-> "checking", node |-> node,
                                  outcome |-> "none", at |-> 0]]
    /\ result' = [call |-> "thread", outcome |-> "ok"]
    /\ UNCHANGED <<netVars, diskVars, weightVars, voteVars, streaming,
                   pruning>>

\* setGenesis flags the new genesis and takes the read lock of the child
\* list of the old one (tangle.cpp:382-386).
SetBegins(t) ==
    /\ threads[t].pc = "setting"
    /\ isGenesis' = isGenesis \cup {threads[t].node}
    /\ threads' = [threads EXCEPT ![t].pc = "outer"]
    /\ result' = [call |-> "setGenesis", outcome |-> "began"]
    /\ UNCHANGED <<genesis, trx, parents, children, tips, cumulativeWeight,
                   genesisCandidates, updateWeights, weightTasks, created,
                   started, netVars, diskVars, weightVars, voteVars,
                   streaming, pruning>>

\* The test of the outer loop (tangle.cpp:386): with a child left the read
\* lock of the tip list is taken (387), which waits for a writer of the tip
\* list; with none the genesis is replaced and the weight thread started
\* (391-396).
SetOuter(t) ==
    /\ threads[t].pc = "outer"
    /\ IF children[genesis] # <<>>
       THEN /\ \A other \in Threads : ~HoldsTipsWrite(other)
            /\ threads' = [threads EXCEPT ![t].pc = "inner", ![t].at = 0]
            /\ result' = [call |-> "setGenesis", outcome |-> "reads tips"]
            /\ UNCHANGED tangleVars
       ELSE /\ Install(LET replaced == [Tangle EXCEPT
                                           !.genesis = threads[t].node]
                       IN IF replaced.updateWeights
                          THEN Spawn(replaced, GenesisTask) ELSE replaced)
            /\ threads' = [threads EXCEPT ![t].pc = "done",
                                          ![t].outcome = "ok"]
            /\ result' = [call |-> "setGenesis", outcome |-> "ok"]
    /\ UNCHANGED <<started, netVars, diskVars, weightVars, voteVars,
                   streaming, pruning>>

\* The test of the inner loop (tangle.cpp:387-388): removeTip is called
\* for the first tip and makes its checks (499-507), or the read lock of
\* the tip list is given back.
SetInner(t) ==
    /\ threads[t].pc = "inner"
    /\ IF threads[t].at >= Len(tips)
       THEN /\ threads' = [threads EXCEPT ![t].pc = "outer"]
            /\ result' = [call |-> "setGenesis", outcome |-> "tips read"]
       ELSE LET outcome == RemoveTipOutcome(Tangle, tips[1])
            IN /\ threads' = [threads EXCEPT
                                ![t].pc = IF outcome = "ok" THEN "detaching"
                                          ELSE "done",
                                ![t].outcome = outcome]
               /\ result' = [call |-> "removeTip",
                             outcome |-> IF outcome = "ok" THEN "checked"
                                         ELSE outcome]
    /\ UNCHANGED <<tangleVars, started, netVars, diskVars, weightVars,
                   voteVars, streaming, pruning>>

\* The critical region of the removeTip that setGenesis called: it waits
\* for the mutex (tangle.cpp:510), detaches the first tip and returns.
SetDetaches(t) ==
    /\ threads[t].pc = "detaching"
    /\ \A other \in Threads : ~HoldsMutex(other)
    /\ tips # <<>>
    /\ Install(RemoveTipRegion(Tangle, tips[1]))
    /\ threads' = [threads EXCEPT ![t].pc = "inner", ![t].at = @ + 1]
    /\ result' = [call |-> "removeTip", outcome |-> "ok"]
    /\ UNCHANGED <<started, netVars, diskVars, weightVars, voteVars,
                   streaming, pruning>>

\* add enters its critical region: it waits for the mutex (tangle.cpp:462).
AddLocksMutex(t) ==
    /\ threads[t].pc = "checked"
    /\ \A other \in Threads : ~HoldsMutex(other)
    /\ threads' = [threads EXCEPT ![t].pc = "locked", ![t].at = 1]
    /\ result' = [call |-> "add", outcome |-> "locked"]
    /\ UNCHANGED <<tangleVars, started, netVars, diskVars, weightVars,
                   voteVars, streaming, pruning>>

\* add has parents left to attach to.
ParentsLeft(t) == threads[t].at <= Len(parents[threads[t].node])

\* add takes the write lock of the tip list for the next parent, which
\* waits for the readers of the tip list, and erases the parent
\* (tangle.cpp:468-469).
AddLocksTips(t) ==
    /\ threads[t].pc = "locked"
    /\ ParentsLeft(t)
    /\ \A other \in Threads : ~HoldsTipsRead(other)
    /\ tips' = Erase(tips, parents[threads[t].node][threads[t].at])
    /\ threads' = [threads EXCEPT ![t].pc = "writing"]
    /\ result' = [call |-> "add", outcome |-> "writes tips"]
    /\ UNCHANGED <<genesis, isGenesis, trx, parents, children,
                   cumulativeWeight, genesisCandidates, updateWeights,
                   weightTasks, created, started, netVars, diskVars,
                   weightVars, voteVars, streaming, pruning>>

\* add makes the node a child of the parent found, under the write lock of
\* its child list, which waits for the readers of that list, and pushes
\* the node on the tip list (tangle.cpp:472-474); a parent that is not
\* found is a null pointer dereferenced.
AddAttaches(t) ==
    /\ threads[t].pc = "writing"
    /\ LET node == threads[t].node
           parent == parents[node][threads[t].at]
           target == find(Tangle, trx[parent].hash)
       IN IF target = NoNode
          THEN /\ threads' = [threads EXCEPT ![t].pc = "done",
                                             ![t].outcome = "undefined"]
               /\ result' = [call |-> "add", outcome |-> "undefined"]
               /\ UNCHANGED tangleVars
          ELSE /\ \A other \in Threads :
                     ~(target = genesis /\ HoldsGenesisChildren(other))
               /\ children' = [children EXCEPT ![target] = Append(@, node)]
               /\ tips' = Append(tips, node)
               /\ threads' = [threads EXCEPT ![t].pc = "locked",
                                             ![t].at = @ + 1]
               /\ result' = [call |-> "add", outcome |-> "attached"]
               /\ UNCHANGED <<genesis, isGenesis, trx, parents,
                              cumulativeWeight, genesisCandidates,
                              updateWeights, weightTasks, created>>
    /\ UNCHANGED <<started, netVars, diskVars, weightVars, voteVars,
                   streaming, pruning>>

\* The end of the critical region of add and its return
\* (tangle.cpp:477-488).
AddReturns(t) ==
    /\ threads[t].pc = "locked"
    /\ ~ParentsLeft(t)
    /\ Install(AddFinish(Tangle, threads[t].node))
    /\ threads' = [threads EXCEPT ![t].pc = "done", ![t].outcome = "ok"]
    /\ result' = [call |-> "add", outcome |-> "ok"]
    /\ UNCHANGED <<started, netVars, diskVars, weightVars, voteVars,
                   streaming, pruning>>

\* A tangle is built, then its genesis is replaced by one thread while
\* another adds a transaction.
NextSwap ==
    \/ \E ps \in ParentLists(created) :
            created + 2 < SwapNodes /\ ps # <<>>
            /\ AddNew(ps, <<>>, <<>>, "none")
    \/ \E ps \in ParentLists(created) : ps # <<>> /\ StartSetAndAdd(ps)
    \/ \E t \in Threads : SetBegins(t)
    \/ \E t \in Threads : SetOuter(t)
    \/ \E t \in Threads : SetInner(t)
    \/ \E t \in Threads : SetDetaches(t)
    \/ \E t \in Threads : ThreadChecks(t)
    \/ \E t \in Threads : AddLocksMutex(t)
    \/ \E t \in Threads : AddLocksTips(t)
    \/ \E t \in Threads : AddAttaches(t)
    \/ \E t \in Threads : AddReturns(t)

SpecSwap == Init /\ [][NextSwap]_vars

\* ------------------------------------------------------------ properties

\* C1: after any sequence of successful adds from a genesis, queryBalance
\* of every account succeeds with a balance of at least 0, wherever the
\* transactions were attached.
C1_BalanceNeverNegative ==
    \A account \in Accounts :
        /\ queryBalance(Tangle, account).ok
        /\ queryBalance(Tangle, account).balance >= 0

\* C2: an add that attaches a node never takes more from an account, over
\* all the inputs of the node, than queryBalance gave for the account
\* before the call.
C2_OverdraftRefused ==
    [][(/\ result'.call = "add"
        /\ result'.outcome = "ok"
        /\ created' = created + 1
        /\ parents'[created'] # <<>>)
       => \A account \in Accounts :
             queryBalance(Tangle, account).ok
             => AmountFor(trx'[created'].inputs, account)
                    <= queryBalance(Tangle, account).balance]_vars

\* C4: a node is in the tip list exactly when it can be reached from the
\* genesis and has no child.
C4_TipsAreTheChildlessNodes ==
    \A n \in 1..created :
        (n \in Range(tips))
            <=> (n \in Reachable(Tangle) /\ children[n] = <<>>)

\* C5: an add that fails leaves the genesis, every child list, the tip
\* list and the recorded candidates as they were, and starts no weight
\* thread.
C5_FailedAddChangesNothing ==
    [][(result'.call = "add" /\ result'.outcome # "ok")
       => UNCHANGED <<genesis, children, tips, genesisCandidates,
                      weightTasks>>]_vars

\* An add was refused for a parent that is not in the tangle while the
\* tangle holds transactions.
C5_Witness ==
    /\ result.call = "add"
    /\ result.outcome = "NodeNotFound"
    /\ children[genesis] # <<>>

\* No weight thread is pending and a propagation from every tip would
\* change no weight.
WeightsSettled ==
    /\ \A source \in DOMAIN weightTasks : weightTasks[source] = 0
    /\ PropagateFromTips(Tangle, tips).cumulativeWeight = cumulativeWeight

RECURSIVE TotalOwnWeight(_, _)
TotalOwnWeight(st, S) ==
    IF S = {} THEN 0
    ELSE LET n == CHOOSE x \in S : TRUE
         IN ownWeight(st.trx[n]) + TotalOwnWeight(st, S \ {n})

\* C9: once the weights are settled in a tangle with transactions, the
\* cumulative weight of the genesis is the sum of the own weights of all
\* the nodes of the tangle, each counted once.
C9_GenesisWeightIsTotal ==
    (tips # <<>> /\ WeightsSettled)
        => cumulativeWeight[genesis]
               = TotalOwnWeight(Tangle, Reachable(Tangle))

\* The two adds of the threads run one after the other, first then second,
\* from the tangle the threads began with.
OneAfterTheOther(first, second) ==
    LET a == TangleAdd(started[1], threads[first].node)
        b == TangleAdd(a.st, threads[second].node)
    IN [st |-> b.st, outcomes |-> [t \in {first, second} |->
                                     IF t = first THEN a.outcome
                                     ELSE b.outcome]]

\* C3: concurrent adds are linearizable: when both threads have returned,
\* the tangle and the two outcomes are those of the two adds run one after
\* the other in some order.
C3_ConcurrentAddsLinearizable ==
    (\A t \in Threads : threads[t].pc = "done")
        => \E first, second \in Threads :
              /\ first # second
              /\ OneAfterTheOther(first, second).st = Tangle
              /\ \A t \in Threads :
                    OneAfterTheOther(first, second).outcomes[t]
                        = threads[t].outcome

\* The valid request of every remote transaction was handled at least once.
AllHandled ==
    /\ wire # <<>>
    /\ \A k \in 1..Len(wire) : handled[k] >= 1

\* The k-th remote transaction is in the tangle under its hash, with an
\* edge from each parent it names and no other.
Installed(st, k) ==
    LET node == find(st, wire[k].hash)
    IN /\ node # NoNode
       /\ {st.trx[q].hash : q \in Range(st.parents[node])}
              = Range(wire[k].parentHashes)
       /\ \A q \in Range(st.parents[node]) :
              node \in Range(st.children[q])

\* C6: once a valid request of every transaction of the set was handled,
\* in whatever order and with whatever repetitions, every transaction is
\* installed with its edges and no transaction is held in the queue.
C6_EveryOrderInstallsAll ==
    AllHandled
        => /\ \A k \in 1..Len(wire) : Installed(Tangle, k)
           /\ networkAdditionQueue = <<>>

\* The handler just run was given a valid request of the k-th remote
\* transaction.
HandledValid(k) ==
    /\ result'.call = "AddTransactionRequest"
    /\ result'.valid
    /\ result'.wire = k

\* With only the genesis in the tangle and T2, whose one parent is T1, alone
\* in the queue, the handler of the request of T1, whose one parent is the
\* genesis, installs T1, then T2 under T1, and leaves the queue empty and T2
\* as the only tip.
ParentResolvesOrphan(k1, k2) ==
    (/\ HandledValid(k1)
     /\ wire[k1].parentHashes = <<trx[genesis].hash>>
     /\ wire[k2].parentHashes = <<wire[k1].hash>>
     /\ children[genesis] = <<>>
     /\ tips = <<>>
     /\ Len(networkAdditionQueue) = 1
     /\ networkAdditionQueue[1].transaction.hash = wire[k2].hash
     /\ networkAdditionQueue[1].signed
     /\ networkAdditionQueue[1].peerID \in peerKeys)
    => LET n1 == find(Tangle', wire[k1].hash)
           n2 == find(Tangle', wire[k2].hash)
       IN /\ n1 # NoNode
          /\ n2 # NoNode
          /\ n1 < n2
          /\ children'[genesis'] = <<n1>>
          /\ children'[n1] = <<n2>>
          /\ parents'[n2] = <<n1>>
          /\ networkAdditionQueue' = <<>>
          /\ tips' = <<n2>>

\* C7, as stated: (a) a valid request whose transaction names a parent that
\* is not in the tangle installs nothing and the transaction is held in the
\* queue; (b) the handler of the request of the parent then installs the
\* parent and, in its drain of the queue, the transaction.
C7_OrphanHeldThenResolved ==
    [][\A k1, k2 \in 1..Len(wire) :
        /\ (/\ HandledValid(k2)
            /\ \E h \in Range(wire[k2].parentHashes) :
                  find(Tangle, h) = NoNode)
           => /\ find(Tangle', wire[k2].hash) = NoNode
              /\ Queued(networkAdditionQueue', wire[k2].hash)
        /\ ParentResolvesOrphan(k1, k2)]_vars

\* C7, amended: (a) a valid request whose transaction names a parent that
\* is neither in the tangle nor waiting in the queue installs nothing and
\* the transaction is held in the queue; (b) as stated.
C7_OrphanHeldUntilParentHandled ==
    [][\A k1, k2 \in 1..Len(wire) :
        /\ (/\ HandledValid(k2)
            /\ \E h \in Range(wire[k2].parentHashes) :
                  /\ find(Tangle, h) = NoNode
                  /\ ~Queued(networkAdditionQueue, h))
           => /\ find(Tangle', wire[k2].hash) = NoNode
              /\ Queued(networkAdditionQueue', wire[k2].hash)
        /\ ParentResolvesOrphan(k1, k2)]_vars

\* One handler installed two transactions: the one it was sent and one that
\* was held in the queue for it.
C7_Witness ==
    /\ result.call = "AddTransactionRequest"
    /\ result.added = 2
    /\ networkAdditionQueue = <<>>
    /\ Len(tips) = 1
    /\ trx[tips[1]].parentHashes = <<wire[result.wire].hash>>

\* The hashes of the transactions reachable from the genesis.
ReachableHashes(st) == {st.trx[n].hash : n \in Reachable(st)}

\* C8: a tangle saved by saveTangle and loaded by loadTangle into a newly
\* constructed tangle holds again the transactions it held, under the
\* genesis it had, and none is left waiting in the queue.
C8_SaveLoadRoundTrip ==
    process = "loaded" =>
        /\ ReachableHashes(Tangle) = savedFrom.hashes
        /\ trx[genesis].hash = savedFrom.genesis
        /\ networkAdditionQueue = <<>>

\* The nodes a walk from the start can pass: the start and its descendants.
Descendants(st, start) == Range(ListFrom(st, <<start>>, {}))

\* C10: biasedRandomWalk from any node returns, and the node it returns has
\* no children and is the start or one of its descendants, whatever the
\* alpha, the children drawn and the cumulative weights.
C10_WalkEndsAtTip ==
    [][result'.call = "biasedRandomWalk" =>
        /\ result'.outcome = "ok"
        /\ children[result'.node] = <<>>
        /\ result'.node \in Descendants(Tangle, result'.start)]_vars

\* C11: a prune that finds no candidate whose members all have confidence 1
\* (the buffer empty or not) returns and keeps the tangle: the genesis, the
\* parent list and the child list of every node and the tip list are the
\* ones of before the call, also when the genesis has children.
C11_PruneWithoutCandidateKeepsTangle ==
    [][(result'.call = "prune" /\ result'.chosen = <<>>)
         => /\ result'.outcome = "ok"
            /\ UNCHANGED <<genesis, parents, children, tips>>]_vars

\* The hashes of the nodes of a list, in its order.
HashesOf(st, nodes) == [i \in 1..Len(nodes) |-> st.trx[nodes[i]].hash]

\* C12: after a prune onto a chosen candidate the genesis has the hash of the
\* first chosen node, its parent hashes are the hashes of the other chosen
\* nodes, and find resolves the hash of every chosen node to the genesis.
C12_GenesisAliasesChosen ==
    (result.call = "prune" /\ result.chosen # <<>>)
        => /\ result.outcome = "ok"
           /\ genesis = result.node
           /\ trx[genesis].hash = trx[result.chosen[1]].hash
           /\ trx[genesis].parentHashes = HashesOf(Tangle, Tail(result.chosen))
           /\ \A i \in 1..Len(result.chosen) :
                find(Tangle, trx[result.chosen[i]].hash) = genesis

\* A valid, mined transaction made elsewhere on the one parent hash, as it
\* arrives from a peer whose key is known.
AliasChild(hash) ==
    [transaction |-> [NullTrx EXCEPT !.hash = WireHash(1),
                                     !.digest = WireHash(1),
                                     !.parentHashes = <<hash>>],
     peerID |-> CHOOSE peer \in Peers : TRUE,
     signed |-> TRUE]

\* C13: after a prune onto two or more nodes, a valid mined transaction that
\* names the hash of a chosen node other than the first as its parent is
\* installed by attemptToAddTransaction as a child of the genesis, under the
\* hash it was sent with.
C13_AliasParentAccepted ==
    (result.call = "prune" /\ Len(result.chosen) >= 2)
        => \A i \in 2..Len(result.chosen) :
             LET entry == AliasChild(trx[result.chosen[i]].hash)
                 after == attemptToAddTransaction(
                             [Peer EXCEPT !.peerKeys = Peers], entry).t
                 node == created + 1
             IN /\ after.created = node
                /\ node \in Range(after.children[after.genesis])
                /\ after.trx[node].hash = entry.transaction.hash

\* C14 as stated: every node held in the tangle, the genesis made by prune
\* included, has the hash stored that hashTransaction computes from it.
C14_StoredHashIsRecomputed ==
    \A node \in Reachable(Tangle) :
        trx[node].hash = hashTransaction(trx[node])

\* C14: every node held in the tangle other than the genesis has the hash
\* stored that hashTransaction computes from it; the genesis made by prune
\* has the hash of the first chosen node.
C14_AddedHashIsRecomputed ==
    /\ \A node \in Reachable(Tangle) \ {genesis} :
          trx[node].hash = hashTransaction(trx[node])
    /\ (result.call = "prune" /\ result.outcome = "ok"
        /\ result.chosen # <<>>)
          => trx[genesis].hash = trx[result.chosen[1]].hash

\* A prune has made a genesis that has a child.
C14_Witness ==
    /\ result.call = "prune" /\ result.outcome = "ok"
    /\ result.chosen # <<>>
    /\ children[genesis] # <<>>
    /\ trx[genesis].hash # hashTransaction(trx[genesis])

\* The votes a table holds for a list of hashes.
VotesFor(table, hashes) ==
    LET at == {i \in 1..Len(table) : table[i].hashes = hashes}
    IN IF at = {} THEN 0 ELSE table[CHOOSE i \in at : TRUE].votes

\* The first voter of a list of hashes once the voter has voted for the
\* list voted.
FirstVoter(table, hashes, voted, voter) ==
    LET at == {i \in 1..Len(table) : table[i].hashes = hashes}
    IN IF at = {} /\ hashes = voted THEN voter
       ELSE table[CHOOSE i \in at : TRUE].first

\* The votes for a list of hashes once the list voted has one vote more.
VotesWith(table, hashes, voted) ==
    VotesFor(table, hashes) + (IF hashes = voted THEN 1 ELSE 0)

\* The lists that no list has more votes than, once the list voted has one
\* vote more.
MaxTuples(table, voted) ==
    {m \in Ballots :
        /\ VotesWith(table, m, voted) > 0
        /\ \A other \in Ballots :
              VotesWith(table, other, voted) <= VotesWith(table, m, voted)}

\* The handler of a vote has accepted it: the table is gone, the last hash
\* of the list is expected and one TangleSynchronizeRequest went to the
\* target.
Accepted(hashes, target) ==
    /\ genesisVotes' = NoVotes
    /\ genesisSyncExpectedHash' = hashes[Len(hashes)]
    /\ result'.sent = <<[type |-> "TangleSynchronizeRequest", to |-> target]>>

\* The handler of a vote for the list has only counted it.
OnlyCounted(voted) ==
    /\ genesisVotes'.collecting
    /\ \A hashes \in Ballots :
          VotesFor(genesisVotes'.table, hashes)
              = VotesWith(genesisVotes.table, hashes, voted)
    /\ genesisSyncExpectedHash' = genesisSyncExpectedHash
    /\ result'.sent = <<>>

\* What C15 says of the step that handles a verified vote of the voter for
\* the list voted.
VoteHandledAsStated(voted, voter) ==
    LET table == genesisVotes.table
        keys == Cardinality(peerKeys)
        total == TotalVotes(table) + 1
        best == MaxTuples(table, voted)
    IN IF 2 * VotesWith(table, voted, voted) > keys
       THEN Accepted(voted, voter)
       ELSE IF total >= keys - 1
       THEN \E m \in best :
               LET first == FirstVoter(table, m, voted, voter)
               IN IF first \in connected THEN Accepted(m, first)
                  ELSE OnlyCounted(voted)
       ELSE OnlyCounted(voted)

\* C15: while votes are collected, the handler of a GenesisVoteResponse
\* whose signature verifies under the known key of its sender accepts the
\* vote (the table is cleared, the expected hash set, one
\* TangleSynchronizeRequest sent) exactly when the list voted for has more
\* than half of |peerKeys| votes (expected: its last hash, target: the
\* sender), or the votes together are at least |peerKeys| - 1 and the first
\* voter of the list with the most votes is connected (expected: the last
\* hash of that list, target: that voter); otherwise only the count of the
\* votes changes.
C15_VoteAcceptedExactlyWhenStated ==
    [][(result'.call = "GenesisVoteResponse"
        /\ genesisVotes.collecting
        /\ result'.signed
        /\ result'.peerID \in peerKeys)
          => VoteHandledAsStated(result'.hashes, result'.peerID)]_vars

\* A vote was accepted for the list with the most votes, which is not the
\* list voted for last, with its first voter as the target.
C15_Witness ==
    /\ result.call = "GenesisVoteResponse"
    /\ result.signed
    /\ genesisVotes = NoVotes
    /\ genesisSyncExpectedHash # INVALID_HASH
    /\ genesisSyncExpectedHash # result.hashes[Len(result.hashes)]
    /\ result.sent # <<>>
    /\ result.sent[1].to # result.peerID

\* The conditions C16 names for a SyncGenesisRequest: a genesis is
\* expected and it is the one of the message, the hash computed from the
\* genesis is the actual hash sent, the key of the sender is known and the
\* signature verifies, the genesis has no input.
GenesisAcceptable(message) ==
    /\ genesisSyncExpectedHash # INVALID_HASH
    /\ genesisSyncExpectedHash = message.claimedHash
    /\ hashTransaction(message.genesis) = message.actualHash
    /\ message.peerID \in peerKeys
    /\ message.signed
    /\ message.genesis.inputs = <<>>

\* C16: the handler of a SyncGenesisRequest replaces the genesis only when
\* the conditions hold; otherwise the tangle is left as it is; after a
\* replacement the genesis has the claimed hash, no genesis is expected and
\* the same message handled again changes nothing.
C16_GenesisReplacedOnlyAsStated ==
    [][result'.call = "SyncGenesisRequest"
         => /\ genesis' # genesis => GenesisAcceptable(result'.message)
            /\ ~GenesisAcceptable(result'.message) => UNCHANGED tangleVars
            /\ genesis' # genesis
                 => /\ trx'[genesis'].hash = result'.message.claimedHash
                    /\ genesisSyncExpectedHash' = INVALID_HASH
                    /\ SyncGenesisListener(Peer', result'.message) = Peer']_vars

\* A SyncGenesisRequest has replaced the genesis of a tangle; the node the
\* old genesis had as its child is gone.
C16_Witness ==
    /\ result.call = "SyncGenesisRequest"
    /\ genesis = created
    /\ created = VoteNodes + 1
    /\ trx[genesis].hash = result.message.claimedHash
    /\ genesisSyncExpectedHash = INVALID_HASH

\* The transaction of the request handled and those the queue held: what
\* the handler can install.
Candidates ==
    {[transaction |-> Request(result'.wire, result'.peerID, "none").transaction,
      peerID |-> result'.peerID, signed |-> result'.signed]}
        \cup Range(networkAdditionQueue)

\* C17: a transaction that the handler of an AddTransactionRequest installs,
\* from the request or from the queue, was sent with a signature that
\* verifies under the key known for its sender; when the handler returns,
\* no transaction with a failing signature of a sender whose key is known
\* is in the queue.
C17_InstalledOnlyIfVerified ==
    [][(result'.call = "AddTransactionRequest"
        /\ result'.outcome = "ok")
          => /\ \A node \in (created + 1)..created' :
                   \E entry \in Candidates :
                       /\ entry.transaction.hash = trx'[node].hash
                       /\ entry.signed
                       /\ entry.peerID \in peerKeys'
             /\ \A e \in 1..Len(networkAdditionQueue') :
                   networkAdditionQueue'[e].peerID \in peerKeys'
                       => networkAdditionQueue'[e].signed]_vars

\* A handler has installed a transaction that waited in the queue and has
\* dropped one whose signature fails.
C17_Witness ==
    /\ result.call = "AddTransactionRequest"
    /\ result.outcome = "ok"
    /\ ~result.signed
    /\ result.added > 0
    /\ networkAdditionQueue = <<>>

\* The AddTransactionRequest messages among those sent.
Broadcasts(sent) ==
    {i \in 1..Len(sent) : sent[i].type = "AddTransactionRequest"}

\* C18: the handler of an AddTransactionRequest, the drain of the queue
\* included, sends no AddTransactionRequest; NetworkedTangle::add
\* broadcasts one AddTransactionRequest when Tangle::add has accepted the
\* node, which is then a child of its parents, and none when it has
\* refused it.
C18_NoEcho ==
    /\ result.call = "AddTransactionRequest" => Broadcasts(result.sent) = {}
    /\ result.call = "NetworkedTangle::add"
          => IF result.outcome = "ok"
             THEN /\ result.sent = <<[type |-> "AddTransactionRequest",
                                      to |-> Everyone]>>
                  /\ result.node = created
                  /\ \A k \in 1..Len(parents[created]) :
                        created \in Range(children[parents[created][k]])
             ELSE result.sent = <<>>

\* A handler has installed a received transaction and one taken from the
\* queue after this peer has broadcast a transaction of its own.
C18_Witness ==
    /\ result.call = "AddTransactionRequest"
    /\ result.added = 2
    /\ \E node \in 1..created :
          trx[node].hash = node /\ parents[node] # <<>>

\* The entries the handler has no reason to take out of a queue whose
\* transactions miss a parent: those it cannot verify yet and those with a
\* signature that verifies.
Kept(queue) ==
    SelectSeq(queue, LAMBDA e : e.signed \/ e.peerID \notin peerKeys)

\* The capacity after an entry is put into a queue of the size and
\* capacity.
Doubled(size, capacity) ==
    IF size = capacity /\ size < NETWORK_QUEUE_MAX_SIZE
    THEN IF 2 * size > NETWORK_QUEUE_MAX_SIZE THEN NETWORK_QUEUE_MAX_SIZE
         ELSE 2 * size
    ELSE capacity

C19_Shrunk ==
    /\ queueCapacity > NETWORK_QUEUE_MIN_SIZE
    /\ queueCapacity % 2 = 1

\* An entry of the queue the peer can verify and cannot attach: its
\* signature verifies, the key of its sender is known, a parent is not in
\* the tangle.
Stuck(st, keys, e) ==
    /\ e.signed
    /\ e.peerID \in keys
    /\ \E k \in 1..Len(e.transaction.parentHashes) :
          find(st, e.transaction.parentHashes[k]) = NoNode

\* C20: a handler of an AddTransactionRequest leaves the entries that are
\* correctly signed by a peer with a known key and still miss a parent
\* when it returns in the queue, in their order, the one it received
\* behind them, and installs none of them.
C20_OrphanStaysQueued ==
    [][result'.call = "AddTransactionRequest"
         => LET received ==
                    [transaction |-> Request(result'.wire, result'.peerID,
                                             "none").transaction,
                     peerID |-> result'.peerID,
                     signed |-> result'.signed]
                offered == IF result'.outcome = "ok"
                           THEN Append(networkAdditionQueue, received)
                           ELSE networkAdditionQueue
                StuckAfter(e) == Stuck(Tangle', peerKeys', e)
            IN /\ SelectSeq(networkAdditionQueue', StuckAfter)
                     = SelectSeq(offered, StuckAfter)
               /\ \A e \in Range(offered) :
                     StuckAfter(e)
                        => \A node \in (created + 1)..created' :
                              trx'[node].hash # e.transaction.hash]_vars

\* A handler has installed a transaction while another one, correctly
\* signed by a peer with a known key, stayed in the queue for want of a
\* parent.
C20_Witness ==
    /\ result.call = "AddTransactionRequest"
    /\ result.added > 0
    /\ \E e \in Range(networkAdditionQueue) :
          /\ Stuck(Tangle, peerKeys, e)
          /\ e.transaction.hash # wire[result.wire].hash

\* The tangle is a chain from the genesis to one tip: every node was added
\* on the node made before it.
SingleChain ==
    /\ created > 1
    /\ genesis = 1
    /\ tips = <<created>>
    /\ \A node \in 2..created : parents[node] = <<node - 1>>
    /\ \A node \in 1..(created - 1) : children[node] = <<node + 1>>
    /\ children[created] = <<>>

Occurrences(list, node) ==
    Cardinality({i \in 1..Len(list) : list[i] = node})

\* C22: after an add of a node with parents that succeeds, the new node is
\* once in the tip list and once in the child list of each of its parents,
\* no parent of it is in the tip list, and the tip list holds no node
\* twice.
C22_AddedNodeOnceInTips ==
    [][(result'.call = "add" /\ result'.outcome = "ok"
        /\ created' = created + 1 /\ parents'[created'] # <<>>)
         => /\ Occurrences(tips', created') = 1
            /\ \A p \in Range(parents'[created']) :
                  /\ Occurrences(children'[p], created') = 1
                  /\ p \notin Range(tips')
            /\ Distinct(tips')]_vars

\* The children the nodes have together, as a set.
ChildrenOf(nodes) == UNION {Range(children[nodes[i]]) : i \in 1..Len(nodes)}

\* C23: when prune has put a new genesis in the place of a chosen set, the
\* child list of the new genesis holds the children the chosen nodes had
\* before, each once, the new genesis is the only parent of each of them,
\* and the hash of every node that was in the tip list before is still
\* found from the new genesis.
C23_PruneSplicesChildren ==
    [][(result'.call = "prune" /\ result'.outcome = "ok"
        /\ result'.chosen # <<>>)
         => /\ Range(children'[genesis']) = ChildrenOf(result'.chosen)
            /\ Distinct(children'[genesis'])
            /\ \A kid \in ChildrenOf(result'.chosen) :
                  parents'[kid] = <<genesis'>>
            /\ \A tip \in Range(tips) :
                  find(Tangle', trx[tip].hash) # NoNode]_vars

\* The nodes with the nodes above them: their parents, the parents of
\* those, and so on.
RECURSIVE Upward(_, _)
Upward(st, S) ==
    LET more == S \cup UNION {Range(st.parents[n]) : n \in S}
    IN IF more = S THEN S ELSE Upward(st, more)

\* What the nodes of the set give the account less what they take from it,
\* each node counted once.
RECURSIVE NetOver(_, _, _)
NetOver(st, S, account) ==
    IF S = {} THEN 0
    ELSE LET n == CHOOSE x \in S : TRUE
         IN AmountFor(st.trx[n].outputs, account)
              - AmountFor(st.trx[n].inputs, account)
              + NetOver(st, S \ {n}, account)

\* The entries of the list that name the account.
EntriesFor(entries, account) ==
    {i \in 1..Len(entries) : entries[i].account = account}

\* The new genesis pays every account what the chosen nodes and the nodes
\* above them leave it.
GenesisPaysNet ==
    \A account \in Accounts :
        AmountFor(trx'[genesis'].outputs, account)
            = NetOver(Tangle, Upward(Tangle, Range(result'.chosen)), account)

\* The new genesis has one output for an account that is left an amount
\* and none for another.
OneOutputPerAccountLeft ==
    \A account \in Accounts :
        Cardinality(EntriesFor(trx'[genesis'].outputs, account))
            = IF NetOver(Tangle, Upward(Tangle, Range(result'.chosen)),
                         account) # 0
              THEN 1 ELSE 0

\* Every node of the tangle is above or below a chosen node, or is one.
AllAboveOrBelow(chosen) ==
    Reachable(Tangle)
        \subseteq (Upward(Tangle, Range(chosen))
                   \cup UNION {Descendants(Tangle, chosen[i]) :
                                  i \in 1..Len(chosen)})

BalancesKept ==
    \A account \in Accounts :
        queryBalance(Tangle', account) = queryBalance(Tangle, account)

\* C24: prune onto a chosen set returns also when a chosen node was added
\* with two parents; when it has put a new genesis in the place of the
\* chosen set, the new genesis has one output for each account that the
\* chosen nodes and the nodes above them leave an amount, of that amount,
\* and no other; and when every node was above or below the chosen set the
\* balance of every account is what it was.
C24_PruneKeepsBalances ==
    [][(result'.call = "prune" /\ result'.chosen # <<>>)
         => /\ (\E i \in 1..Len(result'.chosen) :
                    Len(parents[result'.chosen[i]]) = 2)
                  => result'.outcome = "ok"
            /\ result'.outcome = "ok"
                  => /\ GenesisPaysNet
                     /\ OneOutputPerAccountLeft
                     /\ AllAboveOrBelow(result'.chosen) => BalancesKept]_vars

\* Every node of the tangle weighs its own weight and the weights of its
\* children.
WeightsAddUp ==
    \A node \in 1..created :
        cumulativeWeight[node]
            = ownWeight(trx[node]) + SumWeights(Tangle, children[node])

NoWeigherLeft ==
    /\ weighing = <<>>
    /\ \A source \in DOMAIN weightTasks : weightTasks[source] = 0

\* C25: when the weight threads started by the additions have all ended,
\* however their reads and writes were interleaved, every node weighs its
\* own weight plus the weights of its children.
C25_WeightsAddUpAfterThreads ==
    (created > 1 /\ NoWeigherLeft) => WeightsAddUp

\* The other half of C25: no step of a weight thread lowers the weight of
\* a node.
C25_WeightNeverDecreases ==
    [][\A node \in 1..created :
          cumulativeWeight'[node] >= cumulativeWeight[node]]_vars

\* C26: between two executions of the handler of
\* SynchronizationAddTransactionRequest the flag updateWeights is set,
\* whatever the handler did, also when it left with InvalidHash.
C26_FlagRestored == updateWeights

\* The other half of C26: an add that succeeds after the handler starts a
\* weight thread for the node it added.
C26_LaterAddSpawns ==
    [][(result'.call = "add" /\ result'.outcome = "ok")
          => weightTasks'[created'] = weightTasks[created'] + 1]_vars

\* C27: while the handler of a TangleSynchronizeRequest is between its
\* first and its last send, no step changes the genesis pointer, a parent
\* list, a child list or the tip list.
C27_NoChangeWhileStreaming ==
    [][streaming # <<>> => UNCHANGED <<genesis, parents, children, tips>>]_vars

\* The places of a list of messages that hold the message.
PlacesOf(sent, message) == {i \in 1..Len(sent) : sent[i] = message}

\* C28: a TangleSynchronizeRequest handled while nothing else changes the
\* tangle sends, to the requester only, the SyncGenesisRequest of the
\* genesis first, then one SynchronizationAddTransactionRequest for every
\* other node reachable from the genesis, once each, and an
\* UpdateWeightsRequest last.
C28_TangleSentOnce ==
    [][(/\ result'.call = "TangleSynchronizeRequest"
        /\ result'.outcome = "ok"
        /\ genesis \in isGenesis
        /\ streaming.flagged = isGenesis
        /\ streaming.began = Structure)
         => LET sent == result'.sent
                requester == result'.requester
                others == Reachable(Tangle) \ {genesis}
            IN /\ \A i \in 1..Len(sent) : sent[i].to = requester
               /\ sent[1] = [type |-> "SyncGenesisRequest", to |-> requester,
                             node |-> genesis]
               /\ sent[Len(sent)] = [type |-> "UpdateWeightsRequest",
                                     to |-> requester, node |-> NoNode]
               /\ \A node \in others :
                     Cardinality(PlacesOf(sent,
                        [type |-> "SynchronizationAddTransactionRequest",
                         to |-> requester, node |-> node])) = 1
               /\ Len(sent) = Cardinality(others) + 2]_vars

\* C29: a child list is not changed while a thread holds a read lock on
\* it: every change of the list is made under its write lock, which is not
\* given while the list is locked for reading.
C29_NoChangeUnderReadLock ==
    [][\A node \in ReadLocked : children'[node] = children[node]]_vars

\* C30: when removeTip detaches a node, also beside an add that names the
\* node as a parent, the node has no child; afterwards the node is in no
\* child list of its parents and not in the tip list, and each of its
\* parents left without children is in the tip list.  removeTip fails for
\* a node it finds with a child.
C30_RemoveTipDetachesChildless ==
    [][(result'.call = "removeTip" /\ result'.outcome # "checked")
         => LET node == result'.node
            IN /\ result'.outcome = "NotATip" => children[node] # <<>>
               /\ result'.outcome = "ok"
                    => /\ children[node] = <<>>
                       /\ node \notin Range(tips')
                       /\ \A parent \in Range(parents[node]) :
                             /\ node \notin Range(children'[parent])
                             /\ children'[parent] = <<>>
                                   => parent \in Range(tips')]_vars

\* C31: a handler of an AddTransactionRequest keeps in the queue, in their
\* order, the transactions whose sender has no known key, the one it
\* received included, whether the sender is connected or not; they are
\* tried again by the handlers that follow.
C31_UnknownSenderStaysQueued ==
    [][(result'.call = "AddTransactionRequest" /\ result'.outcome = "ok")
         => LET received ==
                    [transaction |-> Request(result'.wire, result'.peerID,
                                             "none").transaction,
                     peerID |-> result'.peerID,
                     signed |-> result'.signed]
                offered == Append(networkAdditionQueue, received)
                Unknown(e) == e.peerID \notin peerKeys'
            IN SelectSeq(networkAdditionQueue', Unknown)
                  = SelectSeq(offered, Unknown)]_vars

\* C32: a process that lacks the key of a peer and keeps asking for it,
\* its requests delivered again and again, records the key in the end,
\* also after the first response of the peer was lost and the peer has
\* sent its key to no one else since.
C32_KeyRecordedInTheEnd == <>("p" \in peerKeys)

\* C33: every entry of peerKeys for a remote peer is a key that arrived in
\* a PublicKeySyncResponse of that peer whose signature verified under it,
\* and only the handling of such a response adds or changes an entry: a
\* response that does not verify leaves peerKeys as it is.
C33_KeysFromVerifiedResponses ==
    /\ [](peerKeys \cap blankKeys = {})
    /\ [][peerKeys' # peerKeys =>
            /\ result'.call = "PublicKeySyncResponse"
            /\ result'.outcome = "ok"]_vars

\* C34: confirmationConfidence returns the number of walks that end at a
\* tip under the node divided by the length of the walk list, a value
\* between 0 and 1, for every length of the walk list, also for lists of
\* 256 entries or more whose walks all end at such a tip.
C34_ConfidenceIsHitsOverLength ==
    result.call = "countWalks"
        => /\ result.value.confidence * result.length
                = result.hits * result.value.size
           /\ result.value.confidence <= result.value.size

\* C35: validateTransactionMined holds exactly when the first
\* miningDifficulty characters of the hash all equal miningTarget, for every
\* base-64 hash, every difficulty and every target character, also one
\* other than 'A'.
C35_MinedIffPrefixIsTarget ==
    result.call = "validateTransactionMined"
        => (result.value = "true"
              <=> /\ result.miningDifficulty <= Len(result.hash)
                  /\ \A i \in 1..result.miningDifficulty :
                        result.hash[i] = result.miningTarget)

\* C36: createAndMine attaches a tip as an extra parent only if the height
\* of that tip is at least 5 below the truncated average height of the two
\* parents the walks chose; when that average is less than 5 no extra
\* parent is attached.
C36_ExtraParentIsLeftBehind ==
    result.call = "createAndMine"
        => \A i \in 1..Len(result.value.parents) :
              LET tip == result.value.parents[i]
                  avgHeight == (result.heights[result.front]
                                + result.heights[result.back]) \div 2
              IN tip \notin {result.front, result.back}
                    => /\ avgHeight >= 5
                       /\ result.heights[tip] <= avgHeight - 5

\* C37: in a vote each peer counts once. When one peer alone answers, among
\* three known peers or more, no handling of its GenesisVoteResponse, sent
\* or delivered again, brings the votes for a list of hashes above one,
\* and none brings them to the majority.
C37_OnePeerOneVote ==
    [][(result'.call = "GenesisVoteResponse"
        /\ genesisVotes.collecting
        /\ result'.signed
        /\ result'.peerID \in peerKeys
        /\ Cardinality(peerKeys) >= 3)
          => /\ \A hashes \in Ballots :
                  VotesWith(genesisVotes.table, hashes, result'.hashes) <= 1
             /\ ~AcceptsAboveHalf(VotesWith(genesisVotes.table,
                                            result'.hashes, result'.hashes),
                                  Peer)]_vars

\* C38: add on one thread and setGenesis on another, on a tangle with a
\* tip, never wait for each other: no state is reached in which one thread
\* holds the mutex and waits for the write lock of the tip list while the
\* other holds a read lock of the tip list and waits for the mutex.
C38_NoDeadlockOfAddAndSetGenesis ==
    ~ \E adding, setting \in Threads :
        /\ threads[adding].pc = "locked"
        /\ ParentsLeft(adding)
        /\ threads[setting].pc = "detaching"

\* C39: after add has returned successfully for a new node, the node is
\* part of the tangle: find returns it for its hash, it is reached from the
\* genesis over the child lists and it is in the tip list; this for every
\* node add accepts, one made with an empty parent list included.
C39_AddedNodeIsInTheTangle ==
    [][(result'.call = "add" /\ result'.outcome = "ok"
        /\ created' = created + 1)
          => /\ find(Tangle', trx'[created'].hash) = created'
             /\ created' \in Reachable(Tangle')
             /\ created' \in Range(tips')]_vars

\* C40: a SyncGenesisRequest whose genesis names alias parent hashes and
\* which passes the checks of the expected hash, the actual hash, the
\* signature and the inputs is installed as the genesis of the receiver,
\* with the claimed hash and the same alias list, although the tangle of
\* the receiver holds none of the aliased nodes.
C40_PrunedGenesisIsInstalled ==
    [][(result'.call = "SyncGenesisRequest"
        /\ GenesisAcceptable(result'.message)
        /\ trx[genesis].hash # result'.message.claimedHash
        /\ result'.message.genesis.parentHashes # <<>>
        /\ \A k \in 1..Len(result'.message.genesis.parentHashes) :
              find(Tangle, result'.message.genesis.parentHashes[k]) = NoNode)
          => /\ genesis' # genesis
             /\ trx'[genesis'].hash = result'.message.claimedHash
             /\ trx'[genesis'].parentHashes
                    = result'.message.genesis.parentHashes]_vars

=============================================================================
